---- MODULE Spec2Model ----
(***************************************************************************)
(* Model of the PRD validation backend: the section extractor of          *)
(* services/documentParser.js, the structure validator of                 *)
(* routes/documents.js, the score combiner and the quick scorer of the    *)
(* validation routes, and the AI dimension fan-out of                     *)
(* services/aiAnalysis.js.                                                *)
(*                                                                         *)
(* A text is a sequence of tokens.  A token is a word, the blank " " or   *)
(* the line feed "\n"; the regular expressions of the source are matched  *)
(* token by token (\s+ is a non-empty run of blanks and line feeds, the  *)
(* flag i is the lower-casing of the word).                               *)
(***************************************************************************)
EXTENDS Integers, Sequences, FiniteSets, TLC

\* ------------------------------------------------------------------------
\* Bounds
\* ------------------------------------------------------------------------
MaxLines == 4

\* the lines of a text given to the feature extractors
MaxFragments == 3

\* the POST /register requests in flight together
MaxRequests == 2

\* the POST /upload requests in flight together
MaxUploads == 2

\* the calls of db.transaction in flight together
MaxTransactions == 2

\* the requests on one project in flight together
MaxProjectRequests == 2

\* the longest competitors array posted to /monitor
MaxCompetitors == 11

\* ------------------------------------------------------------------------
\* State
\* ------------------------------------------------------------------------
\* the section extractor: the content, the locals of the loop, the result
VARIABLES exContent, exLines, exI, exLoop, exSections, exPc, exPass, exFirst

\* POST /validate-structure: the request body and the response
VARIABLES vStructuredData, vContent, vResponse, vPc

exVars == << exContent, exLines, exI, exLoop, exSections, exPc, exPass, exFirst >>

\* POST /analyze: the request, the AI calls of analyzePRD, the response
VARIABLES anHasData, anType, anInclude, anTasks, anResponse, anPc

vVars == << vStructuredData, vContent, vResponse, vPc >>

\* POST /quick-score: the posted data, the local score, the response
VARIABLES qsPrdData, qsScore, qsResponse, qsPc

anVars == << anHasData, anType, anInclude, anTasks, anResponse, anPc >>

qsVars == << qsPrdData, qsScore, qsResponse, qsPc >>

\* calculateSectionCompleteness: the argument, the value returned, the position
VARIABLES scContent, scScore, scPc

scVars == << scContent, scScore, scPc >>

\* getCompetitiveIntelligence: the argument, the five lookups, the value returned, the position
VARIABLES ciPrdData, ciTasks, ciResult, ciPc

ciVars == << ciPrdData, ciTasks, ciResult, ciPc >>

\* the feature extractors: the content, the four lists, the position
VARIABLES fxContent, fxMetrics, fxStakeholders, fxFeatures, fxRisks, fxPc

fxVars == << fxContent, fxMetrics, fxStakeholders, fxFeatures, fxRisks, fxPc >>

\* routes/users.js: the register requests, the array users, userIdCounter
VARIABLES rgRequests, rgUsers, rgCounter

rgVars == << rgRequests, rgUsers, rgCounter >>

\* routes/users.js: the user objects on the heap, the object the array users holds, the requests on one user
VARIABLES upObjects, upSlot, upRequests

upVars == << upObjects, upSlot, upRequests >>

\* routes/documents.js: the upload requests
VARIABLES ulUploads

ulVars == << ulUploads >>

\* config/database.js: the calls of db.transaction
VARIABLES txCalls

txVars == << txCalls >>

\* config/database.js: the calls of testConnection and initializeDatabase, the clients checked out of the pool
VARIABLES dbCalls, dbInUse

dbVars == << dbCalls, dbInUse >>

\* the projects routes: the project objects and teamMembers arrays on the heap, the object the array projects holds, the requests
VARIABLES pjObjects, pjArrays, pjSlot, pjRequests

pjVars == << pjObjects, pjArrays, pjSlot, pjRequests >>

\* routes/competitive.js: POST /monitor: the competitors posted, the settled lookups, the answer, the position
VARIABLES mnCompetitors, mnResults, mnResponse, mnPc

mnVars == << mnCompetitors, mnResults, mnResponse, mnPc >>

\* middleware/auth.js: the request, req.user, the calls of next by authMiddleware, the answer, the route handler was invoked, the position
VARIABLES auRequest, auUser, auNext, auResponse, auHandler, auPc

auVars == << auRequest, auUser, auNext, auResponse, auHandler, auPc >>

vars == << exVars, vVars, anVars, qsVars, scVars, ciVars, fxVars, rgVars, upVars, ulVars, txVars, dbVars, pjVars, mnVars, auVars >>

\* ------------------------------------------------------------------------
\* Texts
\* ------------------------------------------------------------------------
SP == " "
NL == "\n"
null == "null"

IsSpace(t) == t \in {SP, NL}

\* the flag i of the section patterns
Lower(t) ==
  CASE t = "Solution" -> "solution"
    [] t = "KPIs"     -> "kpis"
    [] t = "Features" -> "features"
    [] t = "Goal"     -> "goal"
    [] t = "Product"  -> "product"
    [] t = "Managers" -> "managers"
    [] OTHER          -> t

\* String.prototype.trim: drops the white space at both ends
RECURSIVE TrimLeft(_)
TrimLeft(s) == IF s /= <<>> /\ IsSpace(Head(s)) THEN TrimLeft(Tail(s)) ELSE s

RECURSIVE TrimRight(_)
TrimRight(s) ==
  IF s /= <<>> /\ IsSpace(s[Len(s)]) THEN TrimRight(SubSeq(s, 1, Len(s) - 1)) ELSE s

Trim(s) == TrimRight(TrimLeft(s))

\* String.prototype.split('\n'): always at least one piece
RECURSIVE Split(_)
Split(s) ==
  IF \A i \in 1..Len(s) : s[i] /= NL
  THEN <<s>>
  ELSE LET k == CHOOSE i \in 1..Len(s) : s[i] = NL /\ \A j \in 1..(i - 1) : s[j] /= NL
       IN  <<SubSeq(s, 1, k - 1)>> \o Split(SubSeq(s, k + 1, Len(s)))

\* Array.prototype.join('\n')
RECURSIVE Join(_)
Join(ls) ==
  IF ls = <<>> THEN <<>>
  ELSE IF Len(ls) = 1 THEN ls[1]
  ELSE ls[1] \o <<NL>> \o Join(Tail(ls))

\* ------------------------------------------------------------------------
\* Regular expressions: a pattern is a sequence of alternatives, an
\* alternative a sequence of words separated by \s+
\* ------------------------------------------------------------------------
RECURSIVE MatchAt(_, _, _)
MatchAt(alt, s, i) ==
  /\ i <= Len(s)
  /\ Lower(s[i]) = alt[1]
  /\ \/ Len(alt) = 1
     \/ \E j \in (i + 2)..Len(s) :
          /\ \A k \in (i + 1)..(j - 1) : IsSpace(s[k])
          /\ MatchAt(Tail(alt), s, j)

\* RegExp.prototype.test
Test(pattern, s) ==
  \E a \in 1..Len(pattern) : \E i \in 1..Len(s) : MatchAt(pattern[a], s, i)

SectionOrder ==
  << "problemStatement", "solution", "targetMarket", "userPersonas", "features",
     "successMetrics", "timeline", "risks", "competitiveAnalysis" >>

SectionNames == { SectionOrder[i] : i \in 1..Len(SectionOrder) }

PatternOf(name) ==
  CASE name = "problemStatement" ->
         << <<"problem", "statement">>, <<"problem", "definition">> >>
    [] name = "solution" ->
         << <<"solution">>, <<"proposed", "solution">> >>
    [] name = "targetMarket" ->
         << <<"target", "market">>, <<"market", "analysis">> >>
    [] name = "userPersonas" ->
         << <<"user", "personas">>, <<"target", "users">> >>
    [] name = "features" ->
         << <<"features">>, <<"functional", "requirements">> >>
    [] name = "successMetrics" ->
         << <<"success", "metrics">>, <<"kpis">>,
            <<"key", "performance", "indicators">> >>
    [] name = "timeline" ->
         << <<"timeline">>, <<"roadmap">>, <<"milestones">> >>
    [] name = "risks" ->
         << <<"risks">>, <<"challenges">>, <<"assumptions">> >>
    [] name = "competitiveAnalysis" ->
         << <<"competitive", "analysis">>, <<"competitors">> >>

\* the object literal sectionPatterns, in the order Object.entries walks it
sectionPatterns == [ i \in 1..Len(SectionOrder) |->
                       [name |-> SectionOrder[i], pattern |-> PatternOf(SectionOrder[i])] ]

\* ------------------------------------------------------------------------
\* JS objects with string keys: a sequence of entries in insertion order
\* ------------------------------------------------------------------------
Keys(obj) == { obj[i].name : i \in 1..Len(obj) }

HasKey(obj, k) == k \in Keys(obj)

Get(obj, k) == LET i == CHOOSE i \in 1..Len(obj) : obj[i].name = k IN obj[i].text

\* obj[k] = v: an existing key keeps its place
SetKey(obj, k, v) ==
  IF HasKey(obj, k)
  THEN [ i \in 1..Len(obj) |-> IF obj[i].name = k THEN [name |-> k, text |-> v] ELSE obj[i] ]
  ELSE Append(obj, [name |-> k, text |-> v])

AsMap(obj) == { <<obj[i].name, obj[i].text>> : i \in 1..Len(obj) }

\* ------------------------------------------------------------------------
\* DocumentParser.extractStructuredData: the section loop
\* ------------------------------------------------------------------------
\* the loop without its break: the last matching entry wins
MatchedSectionLast(line) ==
  IF \E i \in 1..Len(sectionPatterns) : Test(sectionPatterns[i].pattern, line)
  THEN LET i == CHOOSE i \in 1..Len(sectionPatterns) :
                  /\ Test(sectionPatterns[i].pattern, line)
                  /\ \A j \in (i + 1)..Len(sectionPatterns) :
                        ~Test(sectionPatterns[j].pattern, line)
       IN  sectionPatterns[i].name
  ELSE null

\* the inner for ... break: the first entry whose pattern matches the line
MatchedSection(line) ==
  IF \E i \in 1..Len(sectionPatterns) : Test(sectionPatterns[i].pattern, line)
  THEN LET i == CHOOSE i \in 1..Len(sectionPatterns) :
                  /\ Test(sectionPatterns[i].pattern, line)
                  /\ \A j \in 1..(i - 1) : ~Test(sectionPatterns[j].pattern, line)
       IN  sectionPatterns[i].name
  ELSE null

\* a save that appends to what an earlier occurrence of the header left
SaveSectionAppend(st) ==
  IF st.currentSection /= null /\ Len(st.sectionContent) > 0
  THEN IF HasKey(st.sections, st.currentSection)
       THEN SetKey(st.sections, st.currentSection,
                   Join(<< Get(st.sections, st.currentSection), Join(st.sectionContent) >>))
       ELSE SetKey(st.sections, st.currentSection, Join(st.sectionContent))
  ELSE st.sections

\* a save that needs a line below the header
SaveSectionWithBody(st) ==
  IF st.currentSection /= null /\ Len(st.sectionContent) > 1
  THEN SetKey(st.sections, st.currentSection, Join(st.sectionContent))
  ELSE st.sections

\* "Save previous section" / "Save last section"
SaveSection(st) ==
  IF st.currentSection /= null /\ Len(st.sectionContent) > 0
  THEN SetKey(st.sections, st.currentSection, Join(st.sectionContent))
  ELSE st.sections

\* an iteration that opens the section without its header line
LineStepNoHeader(st, rawLine) ==
  LET line == Trim(rawLine)
      matchedSection == MatchedSection(line)
  IN  IF matchedSection /= null
      THEN [ currentSection |-> matchedSection,
             sectionContent |-> <<>>,
             sections       |-> SaveSection(st) ]
      ELSE IF st.currentSection /= null /\ Len(line) > 0
      THEN [ st EXCEPT !.sectionContent = Append(@, line) ]
      ELSE st

\* an iteration that keeps the lines of the section it closes
LineStepNoReset(st, rawLine) ==
  LET line == Trim(rawLine)
      matchedSection == MatchedSection(line)
  IN  IF matchedSection /= null
      THEN [ currentSection |-> matchedSection,
             sectionContent |-> Append(st.sectionContent, line),
             sections       |-> SaveSection(st) ]
      ELSE IF st.currentSection /= null /\ Len(line) > 0
      THEN [ st EXCEPT !.sectionContent = Append(@, line) ]
      ELSE st

\* one iteration of the loop over the lines
LineStep(st, rawLine) ==
  LET line == Trim(rawLine)
      matchedSection == MatchedSection(line)
  IN  IF matchedSection /= null
      THEN [ currentSection |-> matchedSection,
             sectionContent |-> <<line>>,
             sections       |-> SaveSection(st) ]
      ELSE IF st.currentSection /= null /\ Len(line) > 0
      THEN [ st EXCEPT !.sectionContent = Append(@, line) ]
      ELSE st

\* ------------------------------------------------------------------------
\* Inputs of the extractor
\* ------------------------------------------------------------------------
RawLines ==
  { <<>>,
    <<SP>>,
    <<"Solution">>,
    <<SP, "Features", SP, "and", SP, "success", SP, "metrics">>,
    <<"alpha">>,
    <<"beta", SP>>,
    <<"competitive", SP, SP, "market", SP, "analysis">> }

RECURSIVE LineSeqs(_)
LineSeqs(n) ==
  IF n = 0 THEN { <<>> }
  ELSE LET shorter == LineSeqs(n - 1)
       IN  shorter \cup { Append(ls, l) : ls \in { x \in shorter : Len(x) = n - 1 }, l \in RawLines }

Contents == { Join(ls) : ls \in LineSeqs(MaxLines) \ { <<>> } }

\* ------------------------------------------------------------------------
\* State of the extractor: the locals of extractStructuredData
\* ------------------------------------------------------------------------
LoopStart == [ currentSection |-> null, sectionContent |-> <<>>, sections |-> <<>> ]

\* one iteration of for (let i = 0; i < lines.length; i++)
ScanLine ==
  /\ exPc = "scan"
  /\ exI <= Len(exLines)
  /\ exLoop' = LineStep(exLoop, exLines[exI])
  /\ exI' = exI + 1
  /\ UNCHANGED << exContent, exLines, exSections, exPc, exPass, exFirst >>
  /\ UNCHANGED << vVars, anVars, qsVars, scVars, ciVars, fxVars, rgVars, upVars, ulVars, txVars, dbVars, pjVars, mnVars, auVars >>

\* the loop is over: "Save last section", the sections are returned
SaveLast ==
  /\ exPc = "scan"
  /\ exI > Len(exLines)
  /\ exSections' = SaveSection(exLoop)
  /\ exPc' = "done"
  /\ UNCHANGED << exContent, exLines, exI, exLoop, exPass, exFirst >>
  /\ UNCHANGED << vVars, anVars, qsVars, scVars, ciVars, fxVars, rgVars, upVars, ulVars, txVars, dbVars, pjVars, mnVars, auVars >>

\* the section texts, in the order Object.values gives them, joined into one text
JoinedSections(obj) == Join([ i \in 1..Len(obj) |-> obj[i].text ])

\* the extracted sections are fed back into extractStructuredData
FeedBack ==
  /\ exPc = "done"
  /\ exPass = 1
  /\ exFirst' = exSections
  /\ exContent' = JoinedSections(exSections)
  /\ exLines' = Split(exContent')
  /\ exI' = 1
  /\ exLoop' = LoopStart
  /\ exSections' = <<>>
  /\ exPc' = "scan"
  /\ exPass' = 2
  /\ UNCHANGED << vVars, anVars, qsVars, scVars, ciVars, fxVars, rgVars, upVars, ulVars, txVars, dbVars, pjVars, mnVars, auVars >>

ExtractNext == ScanLine \/ SaveLast \/ FeedBack

\* ------------------------------------------------------------------------
\* Properties of the extractor
\* ------------------------------------------------------------------------
NineNames ==
  << "problemStatement", "solution", "targetMarket", "userPersonas", "features",
     "successMetrics", "timeline", "risks", "competitiveAnalysis" >>

\* the earliest of the nine names whose pattern matches the line, null if none does
FirstOfNine(line) ==
  IF \E i \in 1..9 : Test(PatternOf(NineNames[i]), line)
  THEN LET i == CHOOSE i \in 1..9 :
                  /\ Test(PatternOf(NineNames[i]), line)
                  /\ \A j \in 1..9 : Test(PatternOf(NineNames[j]), line) => i <= j
       IN  NineNames[i]
  ELSE null

\* C1: every scanned line opens the first of the nine names, in the fixed
\* order, whose pattern matches the trimmed line, and only that one; a line
\* that matches no pattern leaves the open section as it is.
C1_FirstPatternWins ==
  [][ (exPc = "scan" /\ exI <= Len(exLines) /\ exI' = exI + 1) =>
        LET line  == Trim(exLines[exI])
            first == FirstOfNine(line)
        IN  IF first /= null
            THEN exLoop'.currentSection = first /\ exLoop'.sectionContent = <<line>>
            ELSE exLoop'.currentSection = exLoop.currentSection ]_vars

\* a line matching both features and successMetrics has opened features
C1_Witness ==
  /\ exPc = "scan"
  /\ exI > 1
  /\ Test(PatternOf("features"), Trim(exLines[exI - 1]))
  /\ Test(PatternOf("successMetrics"), Trim(exLines[exI - 1]))
  /\ exLoop.currentSection = "features"

\* the trimmed non-empty lines among lines[a..b], in input order
RECURSIVE BodyLines(_, _, _)
BodyLines(lines, a, b) ==
  IF a > b THEN <<>>
  ELSE IF Trim(lines[a]) = <<>> THEN BodyLines(lines, a + 1, b)
  ELSE <<Trim(lines[a])>> \o BodyLines(lines, a + 1, b)

IsHeader(lines, j) == MatchedSection(Trim(lines[j])) /= null

Occurrences(lines, n) == { j \in 1..Len(lines) : MatchedSection(Trim(lines[j])) = n }

Maximum(S) == CHOOSE x \in S : \A y \in S : y <= x

Minimum(S) == CHOOSE x \in S : \A y \in S : x <= y

\* the header line of the last occurrence of n and the lines below it, up to
\* the next header or the end of the text
LastBlock(lines, n) ==
  LET k     == Maximum(Occurrences(lines, n))
      later == { j \in (k + 1)..Len(lines) : IsHeader(lines, j) }
      e     == IF later = {} THEN Len(lines) ELSE Minimum(later) - 1
  IN  <<Trim(lines[k])>> \o BodyLines(lines, k + 1, e)

\* C2: the text of a section whose header occurs several times is the block
\* of the last occurrence alone; nothing gathered under an earlier
\* occurrence is kept or appended.
C2_LastOccurrenceOverwrites ==
  exPc = "done" =>
    \A n \in SectionNames :
      Occurrences(exLines, n) /= {} =>
        /\ HasKey(exSections, n)
        /\ Get(exSections, n) = Join(LastBlock(exLines, n))

\* two Solution headers with different bodies, other content between them
C2_Witness ==
  /\ exPc = "done"
  /\ exPass = 1
  /\ Cardinality(Occurrences(exLines, "solution")) = 2
  /\ LET k1 == Minimum(Occurrences(exLines, "solution"))
         k2 == Maximum(Occurrences(exLines, "solution"))
     IN  /\ k2 > k1 + 1
         /\ k2 < Len(exLines)
         /\ BodyLines(exLines, k1 + 1, k2 - 1) /= <<>>
         /\ BodyLines(exLines, k1 + 1, k2 - 1) /= BodyLines(exLines, k2 + 1, Len(exLines))
  /\ HasKey(exSections, "solution")

\* C3: the sections extracted from the joined section texts are the
\* sections the texts came from: same keys, same text for every key.
C3_ExtractIdempotent ==
  (exPc = "done" /\ exPass = 2) => AsMap(exSections) = AsMap(exFirst)

\* a second extraction over two sections, one of them with body lines
C3_Witness ==
  /\ exPc = "done"
  /\ exPass = 2
  /\ Len(exFirst) >= 2
  /\ \E i \in 1..Len(exFirst) : Len(Split(exFirst[i].text)) >= 2

\* the section open once line j is read: that of the last header up to j
OpenAt(lines, j) ==
  LET hs == { k \in 1..j : IsHeader(lines, k) }
  IN  IF hs = {} THEN null ELSE MatchedSection(Trim(lines[Maximum(hs)]))

RECURSIVE OpenLinesFrom(_, _, _)
OpenLinesFrom(lines, n, j) ==
  IF j > Len(lines) THEN <<>>
  ELSE IF OpenAt(lines, j) = n /\ Trim(lines[j]) /= <<>>
  THEN <<Trim(lines[j])>> \o OpenLinesFrom(lines, n, j + 1)
  ELSE OpenLinesFrom(lines, n, j + 1)

\* a is b with some elements left out
RECURSIVE IsSubseq(_, _)
IsSubseq(a, b) ==
  IF a = <<>> THEN TRUE
  ELSE IF b = <<>> THEN FALSE
  ELSE IF Head(a) = Head(b) THEN IsSubseq(Tail(a), Tail(b))
  ELSE IsSubseq(a, Tail(b))

\* C4: the lines of a section's text are lines read while that section was
\* open, in input order; lines read before the first header and empty lines
\* are in no section's text.
C4_LineAttribution ==
  exPc = "done" =>
    \A i \in 1..Len(exSections) :
      LET ls == Split(exSections[i].text)
      IN  /\ IsSubseq(ls, OpenLinesFrom(exLines, exSections[i].name, 1))
          /\ \A k \in 1..Len(ls) : ls[k] /= <<>>

\* a text with a line before the first header, an empty line inside a
\* section and two sections with lines of their own
C4_Witness ==
  /\ exPc = "done"
  /\ exPass = 1
  /\ Len(exLines) >= 4
  /\ Trim(exLines[1]) /= <<>>
  /\ OpenAt(exLines, 1) = null
  /\ \E j \in 2..Len(exLines) : Trim(exLines[j]) = <<>> /\ OpenAt(exLines, j) /= null
  /\ \E i \in 1..Len(exSections) : Len(Split(exSections[i].text)) >= 2


\* C18: sections has the key N exactly when some line of the input opened
\* section N, a header without lines below it included; every key is one of
\* the nine section names.
C18_KeysAreDetectedSections ==
  exPc = "done" =>
    /\ \A i \in 1..Len(exSections) :
         \E k \in 1..Len(NineNames) : exSections[i].name = NineNames[k]
    /\ \A k \in 1..Len(NineNames) :
         HasKey(exSections, NineNames[k])
           <=> \E j \in 1..Len(exLines) : FirstOfNine(Trim(exLines[j])) = NineNames[k]

\* a header right above another header and a header on the last line: both
\* sections have their key
C18_Witness ==
  /\ exPc = "done"
  /\ exPass = 1
  /\ Len(exLines) >= 2
  /\ FirstOfNine(Trim(exLines[Len(exLines) - 1])) = "targetMarket"
  /\ FirstOfNine(Trim(exLines[Len(exLines)])) = "solution"
  /\ HasKey(exSections, "targetMarket")
  /\ HasKey(exSections, "solution")
  /\ Len(Split(Get(exSections, "solution"))) = 1

\* ------------------------------------------------------------------------
\* Measures of a text
\* ------------------------------------------------------------------------
\* a token "Wk" stands for k words of five letters separated by single blanks
BlockWords(t) ==
  CASE t = "W8"   -> 8
    [] t = "W9"   -> 9
    [] t = "W16"  -> 16
    [] t = "W17"  -> 17
    [] t = "W33"  -> 33
    [] t = "W50"  -> 50
    [] t = "W51"  -> 51
    [] t = "W60"  -> 60
    [] t = "W100" -> 100
    [] t = "W101" -> 101
    [] t = "W150" -> 150
    [] t = "W900" -> 900
    [] OTHER      -> 0

IsPunct(t) == t \in { ":", ".", "!", "?", "%" }

IsNumber(t) == t \in { "42", "7" }

\* \w: letters and digits
IsWordTok(t) == ~IsSpace(t) /\ ~IsPunct(t)

TokLen(t) == IF BlockWords(t) > 0 THEN 6 * BlockWords(t) - 1 ELSE Len(t)

\* String.prototype.length
RECURSIVE Length(_)
Length(s) == IF s = <<>> THEN 0 ELSE TokLen(Head(s)) + Length(Tail(s))

\* the number of separators a split(/\s+/) finds: the maximal runs of white
\* space, and the blanks inside the blocks
RECURSIVE Separators(_, _)
Separators(s, i) ==
  IF i > Len(s) THEN 0
  ELSE (IF IsSpace(s[i]) /\ (i = 1 \/ ~IsSpace(s[i - 1])) THEN 1 ELSE 0)
       + (IF BlockWords(s[i]) > 0 THEN BlockWords(s[i]) - 1 ELSE 0)
       + Separators(s, i + 1)

\* content.split(/\s+/).length
WordCount(s) == 1 + Separators(s, 1)

\* an optional value: undefined, or a text
NoText == [ given |-> FALSE, text |-> <<>> ]

Given(t) == [ given |-> TRUE, text |-> t ]

\* JS truthiness of an optional string: defined and not ""
Truthy(o) == o.given /\ o.text /= <<>>

\* Math.round(num / den) for num >= 0, den > 0
Round(num, den) == (2 * num + den) \div (2 * den)

\* ------------------------------------------------------------------------
\* routes/documents.js: the structure validator
\* ------------------------------------------------------------------------
requiredSections ==
  << "problemStatement", "solution", "targetMarket", "successMetrics", "features" >>

optionalSections == << "userPersonas", "timeline", "risks", "competitiveAnalysis" >>

\* the table of checkSectionInContent repeats sectionPatterns of the parser
checkSectionInContent(content, sectionName) ==
  IF sectionName \in SectionNames THEN Test(PatternOf(sectionName), content) ELSE FALSE

\* \b(user|customer|stakeholder|target)\b with the flag i
MentionsUser(s) ==
  \E i \in 1..Len(s) :
    /\ Lower(s[i]) \in { "user", "customer", "stakeholder", "target" }
    /\ (i = 1 \/ ~IsWordTok(s[i - 1]))
    /\ (i = Len(s) \/ ~IsWordTok(s[i + 1]))

\* a guard that also turns away a text of exactly 50 characters
calculateSectionCompletenessOver50(sectionContent) ==
  IF ~Truthy(sectionContent) \/ Length(sectionContent.text) <= 50
  THEN 0
  ELSE LET t == sectionContent.text
           wordCount == WordCount(t)
           score ==
               (IF wordCount > 100 THEN 30 ELSE IF wordCount > 50 THEN 20 ELSE 0)
             + (IF \E i \in 1..Len(t) : t[i] = ":" THEN 10 ELSE 0)
             + (IF \E i \in 1..Len(t) : IsNumber(t[i]) THEN 10 ELSE 0)
             + (IF Length(t) > 200 THEN 20 ELSE 0)
             + (IF Len(Split(t)) > 3 THEN 10 ELSE 0)
             + (IF t[Len(t)] \in { ".", "!", "?" } THEN 10 ELSE 0)
             + (IF MentionsUser(t) THEN 10 ELSE 0)
       IN  IF score < 100 THEN score ELSE 100

calculateSectionCompleteness(sectionContent) ==
  IF ~Truthy(sectionContent) \/ Length(sectionContent.text) < 50
  THEN 0
  ELSE LET t == sectionContent.text
           wordCount == WordCount(t)
           score ==
               (IF wordCount > 100 THEN 30 ELSE IF wordCount > 50 THEN 20 ELSE 0)
             + (IF \E i \in 1..Len(t) : t[i] = ":" THEN 10 ELSE 0)
             + (IF \E i \in 1..Len(t) : IsNumber(t[i]) THEN 10 ELSE 0)
             + (IF Length(t) > 200 THEN 20 ELSE 0)
             + (IF Len(Split(t)) > 3 THEN 10 ELSE 0)
             + (IF t[Len(t)] \in { ".", "!", "?" } THEN 10 ELSE 0)
             + (IF MentionsUser(t) THEN 10 ELSE 0)
       IN  IF score < 100 THEN score ELSE 100

\* structuredData?.sections?.[section]
SectionOf(structuredData, section) ==
  IF structuredData.given /\ HasKey(structuredData.sections, section)
  THEN Given(Get(structuredData.sections, section))
  ELSE NoText

\* structuredData?.sections?.[section] || (content && checkSectionInContent(content, section))
HasSectionNoContent(structuredData, content, section) ==
  Truthy(SectionOf(structuredData, section))

HasSection(structuredData, content, section) ==
  \/ Truthy(SectionOf(structuredData, section))
  \/ (Truthy(content) /\ checkSectionInContent(content.text, section))

\* the points a present section adds to totalScore
SectionScoreWeighted(points, completeness) == (points * completeness) \div 100

SectionScore(points, completeness) == points

\* the body of the two forEach loops; the section name stands for the
\* phrase section.replace(/([A-Z])/g, ' $1').toLowerCase() in the messages
\* a loop body that praises a present section only for a positive sub-score
CheckSectionIfComplete(v, structuredData, content, section, required) ==
  LET points == IF required THEN 20 ELSE 10
      own    == SectionOf(structuredData, section)
      completeness == calculateSectionCompleteness(IF Truthy(own) THEN own ELSE content)
  IN  IF HasSection(structuredData, content, section)
      THEN [ v EXCEPT
               !.sectionAnalysis = @ @@ (section :>
                   [ present |-> TRUE, score |-> points, completeness |-> completeness ]),
               !.totalScore = @ + SectionScore(points, completeness),
               !.maxScore = @ + points,
               !.strengths = IF completeness > 0
                             THEN Append(@, << IF required THEN "Strong" ELSE "Includes",
                                               section >>)
                             ELSE @ ]
      ELSE IF required
      THEN [ v EXCEPT
               !.sectionAnalysis = @ @@ (section :>
                   [ present |-> FALSE, score |-> 0, completeness |-> 0 ]),
               !.maxScore = @ + points,
               !.missingSections = Append(@, section),
               !.recommendations = Append(@, << "Add a comprehensive", section, "section" >>) ]
      ELSE [ v EXCEPT
               !.sectionAnalysis = @ @@ (section :>
                   [ present |-> FALSE, score |-> 0, completeness |-> 0 ]),
               !.maxScore = @ + points,
               !.areasForImprovement = Append(@, << "Consider adding", section >>) ]

CheckSection(v, structuredData, content, section, required) ==
  LET points == IF required THEN 20 ELSE 10
      own    == SectionOf(structuredData, section)
      completeness == calculateSectionCompleteness(IF Truthy(own) THEN own ELSE content)
  IN  IF HasSection(structuredData, content, section)
      THEN [ v EXCEPT
               !.sectionAnalysis = @ @@ (section :>
                   [ present |-> TRUE, score |-> points, completeness |-> completeness ]),
               !.totalScore = @ + SectionScore(points, completeness),
               !.maxScore = @ + points,
               !.strengths = Append(@, << IF required THEN "Strong" ELSE "Includes", section >>) ]
      ELSE IF required
      THEN [ v EXCEPT
               !.sectionAnalysis = @ @@ (section :>
                   [ present |-> FALSE, score |-> 0, completeness |-> 0 ]),
               !.maxScore = @ + points,
               !.missingSections = Append(@, section),
               !.recommendations = Append(@, << "Add a comprehensive", section, "section" >>) ]
      ELSE [ v EXCEPT
               !.sectionAnalysis = @ @@ (section :>
                   [ present |-> FALSE, score |-> 0, completeness |-> 0 ]),
               !.maxScore = @ + points,
               !.areasForImprovement = Append(@, << "Consider adding", section >>) ]

RECURSIVE ForEachSection(_, _, _, _, _)
ForEachSection(v, structuredData, content, list, required) ==
  IF list = <<>> THEN v
  ELSE ForEachSection(CheckSection(v, structuredData, content, Head(list), required),
                      structuredData, content, Tail(list), required)

\* score bands cut at 70 and 90
GeneralRecommendationShifted(overallScore) ==
  IF overallScore < 70 THEN << "Focus on adding missing required sections first" >>
  ELSE IF overallScore < 90
  THEN << "Consider adding optional sections to improve completeness" >>
  ELSE << "Great structure! Consider adding more detail to existing sections" >>

GeneralRecommendation(overallScore) ==
  IF overallScore < 60 THEN << "Focus on adding missing required sections first" >>
  ELSE IF overallScore < 80
  THEN << "Consider adding optional sections to improve completeness" >>
  ELSE << "Great structure! Consider adding more detail to existing sections" >>

validatePRDStructure(structuredData, content) ==
  LET v0 == [ overallScore |-> 0, completenessScore |-> 0,
              sectionAnalysis |-> <<>>, recommendations |-> <<>>,
              missingSections |-> <<>>, strengths |-> <<>>,
              areasForImprovement |-> <<>>, totalScore |-> 0, maxScore |-> 0 ]
      v1 == ForEachSection(v0, structuredData, content, requiredSections, TRUE)
      v2 == ForEachSection(v1, structuredData, content, optionalSections, FALSE)
      overall == Round(v2.totalScore * 100, v2.maxScore)
  IN  [ overallScore        |-> overall,
        completenessScore   |-> overall,
        sectionAnalysis     |-> v2.sectionAnalysis,
        recommendations     |-> Append(v2.recommendations, GeneralRecommendation(overall)),
        missingSections     |-> v2.missingSections,
        strengths           |-> v2.strengths,
        areasForImprovement |-> v2.areasForImprovement ]

\* ------------------------------------------------------------------------
\* POST /api/documents/validate-structure
\* ------------------------------------------------------------------------
NoValidation ==
  [ overallScore |-> 0, completenessScore |-> 0, sectionAnalysis |-> <<>>,
    recommendations |-> <<>>, missingSections |-> <<>>, strengths |-> <<>>,
    areasForImprovement |-> <<>> ]

NoResponse == [ status |-> 0, error |-> "", data |-> NoValidation ]

\* the text a posted section carries
PostedText(kind, name) ==
  CASE kind = "short" -> << "alpha" >>
    [] kind = "long"  -> << "W150", "." >>
    [] kind = "holes" -> IF name \in { "solution", "timeline" }
                         THEN <<>>
                         ELSE << "W60", SP, "user", ":", SP, "42" >>

\* the sections object holding the names of P, in the order of the parser
RECURSIVE PostedSections(_, _, _)
PostedSections(P, kind, i) ==
  IF i > Len(SectionOrder) THEN <<>>
  ELSE (IF SectionOrder[i] \in P
        THEN << [ name |-> SectionOrder[i], text |-> PostedText(kind, SectionOrder[i]) ] >>
        ELSE <<>>)
       \o PostedSections(P, kind, i + 1)

PostedStructuredData ==
  { [ given |-> FALSE, sections |-> <<>> ] }
  \cup { [ given |-> TRUE, sections |-> PostedSections(P, kind, 1) ] :
           P \in SUBSET SectionNames, kind \in { "short", "long", "holes" } }

PostedContents ==
  { NoText,
    Given(<<>>),
    Given(<< "problem", NL, "statement", SP, "and", SP, "risks" >>),
    Given(<< "W60", SP, "Solution", SP, "for", SP, "competitors", "." >>) }

\* a test for undefined only
MissingInputUndefined(structuredData, content) ==
  ~structuredData.given /\ ~content.given

\* !structuredData && !content: an object is truthy, the string "" is not
MissingInput(structuredData, content) ==
  ~structuredData.given /\ ~Truthy(content)

\* if (!structuredData && !content) return res.status(400)
ValidateRejected ==
  /\ vPc = "request"
  /\ MissingInput(vStructuredData, vContent)
  /\ vResponse' = [ status |-> 400,
                    error  |-> "Either structuredData or content is required",
                    data   |-> NoValidation ]
  /\ vPc' = "sent"
  /\ UNCHANGED << vStructuredData, vContent >>
  /\ UNCHANGED << exVars, anVars, qsVars, scVars, ciVars, fxVars, rgVars, upVars, ulVars, txVars, dbVars, pjVars, mnVars, auVars >>

\* res.json({ success: true, data: validation })
ValidateStructure ==
  /\ vPc = "request"
  /\ ~MissingInput(vStructuredData, vContent)
  /\ vResponse' = [ status |-> 200, error |-> "",
                    data   |-> validatePRDStructure(vStructuredData, vContent) ]
  /\ vPc' = "sent"
  /\ UNCHANGED << vStructuredData, vContent >>
  /\ UNCHANGED << exVars, anVars, qsVars, scVars, ciVars, fxVars, rgVars, upVars, ulVars, txVars, dbVars, pjVars, mnVars, auVars >>

ValidateNext == ValidateRejected \/ ValidateStructure

\* the texts calculateSectionCompleteness is called with: words, then a
\* colon, a number, further lines, a mention and an end, each there or not
SectionBodies ==
  { << "W8" >>, << "W9" >>, << "W33" >>, << "W50" >>, << "W51" >>, << "W100" >>,
    << "W101" >> }

SectionColons == { <<>>, << ":" >> }

SectionNumbers == { <<>>, << "42" >> }

SectionMoreLines ==
  { <<>>, << NL, "alpha", NL, "beta" >>, << NL, "alpha", NL, "beta", NL, "gamma" >> }

SectionMentions ==
  { <<>>, << SP, "user" >>, << SP, "Customer" >>, << SP, "users" >>, << SP, "target" >> }

SectionEnds == { <<>>, << "." >>, << "!" >>, << "?" >>, << ".", NL >> }

SectionContents ==
  { NoText, Given(<<>>) }
  \cup { Given(b \o c \o n \o l \o m \o e) :
           b \in SectionBodies, c \in SectionColons, n \in SectionNumbers,
           l \in SectionMoreLines, m \in SectionMentions, e \in SectionEnds }

\* return Math.min(score, 100)
ScoreSection ==
  /\ scPc = "call"
  /\ scScore' = calculateSectionCompleteness(scContent)
  /\ scPc' = "returned"
  /\ UNCHANGED scContent
  /\ UNCHANGED << exVars, vVars, anVars, qsVars, ciVars, fxVars, rgVars, upVars, ulVars, txVars, dbVars, pjVars, mnVars, auVars >>

CompletenessNext == ScoreSection

FiveRequired ==
  { "problemStatement", "solution", "targetMarket", "successMetrics", "features" }

FourOptional == { "userPersonas", "timeline", "risks", "competitiveAnalysis" }

\* the presence test: sections[name] is non-empty, or content is supplied and
\* the header pattern of the section is found somewhere in it
PresentInRequest(n) ==
  \/ /\ vStructuredData.given
     /\ \E i \in 1..Len(vStructuredData.sections) :
          /\ vStructuredData.sections[i].name = n
          /\ vStructuredData.sections[i].text /= <<>>
  \/ /\ vContent.given
     /\ Test(PatternOf(n), vContent.text)

PresencePoints ==
    20 * Cardinality({ n \in FiveRequired : PresentInRequest(n) })
  + 10 * Cardinality({ n \in FourOptional : PresentInRequest(n) })

\* C5: overallScore = completenessScore = round(100 x P / 140), P being 20
\* points per required and 10 per optional section present, whatever the
\* completeness sub-scores are; five required sections alone score 71.
C5_ScoreFromPresenceOnly ==
  (vPc = "sent" /\ vResponse.status = 200) =>
    /\ vResponse.data.overallScore = Round(100 * PresencePoints, 140)
    /\ vResponse.data.completenessScore = vResponse.data.overallScore
    /\ ( /\ \A n \in FiveRequired : PresentInRequest(n)
         /\ \A n \in FourOptional : ~PresentInRequest(n) )
       => vResponse.data.overallScore = 71

\* the five required sections alone, with sub-scores that are neither 0 nor 100
C5_Witness ==
  /\ vPc = "sent"
  /\ vResponse.status = 200
  /\ \A n \in FiveRequired : PresentInRequest(n)
  /\ \A n \in FourOptional : ~PresentInRequest(n)
  /\ vResponse.data.overallScore = 71
  /\ \A n \in FiveRequired :
       /\ vResponse.data.sectionAnalysis[n].completeness > 0
       /\ vResponse.data.sectionAnalysis[n].completeness < 100

\* C6: a section is reported present exactly when sections[name] is
\* non-empty or the supplied content contains its header pattern, so a
\* section missing from sections is present when the content mentions it.
C6_PresenceTest ==
  (vPc = "sent" /\ vResponse.status = 200) =>
    \A n \in SectionNames :
      vResponse.data.sectionAnalysis[n].present <=> PresentInRequest(n)

\* risks is present through the content alone, solution is posted as ""
\* and absent
C6_Witness ==
  /\ vPc = "sent"
  /\ vResponse.status = 200
  /\ vStructuredData.given
  /\ ~HasKey(vStructuredData.sections, "risks")
  /\ vResponse.data.sectionAnalysis["risks"].present
  /\ HasKey(vStructuredData.sections, "solution")
  /\ ~vResponse.data.sectionAnalysis["solution"].present
  /\ vResponse.data.sectionAnalysis["problemStatement"].present
  /\ ~HasKey(vStructuredData.sections, "problemStatement")

\* C13: the nine sections have one record each, present exactly when the
\* score is positive (20 required, 10 optional); missingSections is the set
\* of absent required sections; every absent optional section has one
\* areasForImprovement entry and every present section one strengths entry,
\* whatever its sub-score. Nothing present and a content without headers:
\* score 0, five sections missing.
C13_ValidationConsistent ==
  (vPc = "sent" /\ vResponse.status = 200) =>
    LET v         == vResponse.data
        presentIn == { n \in SectionNames : v.sectionAnalysis[n].present }
    IN  /\ DOMAIN v.sectionAnalysis = FiveRequired \cup FourOptional
        /\ \A n \in FiveRequired :
             v.sectionAnalysis[n].score = IF n \in presentIn THEN 20 ELSE 0
        /\ \A n \in FourOptional :
             v.sectionAnalysis[n].score = IF n \in presentIn THEN 10 ELSE 0
        /\ \A n \in SectionNames : v.sectionAnalysis[n].present <=> v.sectionAnalysis[n].score > 0
        /\ { v.missingSections[i] : i \in 1..Len(v.missingSections) } = FiveRequired \ presentIn
        /\ Len(v.missingSections) = Cardinality(FiveRequired \ presentIn)
        /\ Len(v.areasForImprovement) = Cardinality(FourOptional \ presentIn)
        /\ \A n \in FourOptional \ presentIn :
             \E i \in 1..Len(v.areasForImprovement) :
               v.areasForImprovement[i] = << "Consider adding", n >>
        /\ Len(v.strengths) = Cardinality(presentIn)
        /\ \A n \in presentIn :
             \E i \in 1..Len(v.strengths) : v.strengths[i][2] = n
        /\ (\A n \in SectionNames : ~PresentInRequest(n)) =>
             /\ v.overallScore = 0
             /\ Cardinality({ v.missingSections[i] : i \in 1..Len(v.missingSections) }) = 5

\* present sections with a sub-score of 0 and a strengths entry, an absent
\* required and an absent optional section
C13_Witness ==
  /\ vPc = "sent"
  /\ vResponse.status = 200
  /\ vResponse.data.sectionAnalysis["solution"].present
  /\ vResponse.data.sectionAnalysis["solution"].completeness = 0
  /\ \E i \in 1..Len(vResponse.data.strengths) : vResponse.data.strengths[i][2] = "solution"
  /\ vResponse.data.sectionAnalysis["timeline"].present
  /\ ~vResponse.data.sectionAnalysis["features"].present
  /\ ~vResponse.data.sectionAnalysis["risks"].present
  /\ Len(vResponse.data.missingSections) = 2

\* C14: the recommendations are one "Add a comprehensive X section" for each
\* missing required section, then one general recommendation, the last
\* element, chosen by the score: below 60, 60 to 79, 80 and more.
C14_RecommendationPolicy ==
  (vPc = "sent" /\ vResponse.status = 200) =>
    LET v       == vResponse.data
        missing == { n \in FiveRequired : ~v.sectionAnalysis[n].present }
        recs    == v.recommendations
    IN  /\ Len(recs) = Cardinality(missing) + 1
        /\ \A n \in missing :
             Cardinality({ i \in 1..(Len(recs) - 1) :
                             recs[i] = << "Add a comprehensive", n, "section" >> }) = 1
        /\ recs[Len(recs)] =
             IF v.overallScore < 60
             THEN << "Focus on adding missing required sections first" >>
             ELSE IF v.overallScore <= 79
             THEN << "Consider adding optional sections to improve completeness" >>
             ELSE << "Great structure! Consider adding more detail to existing sections" >>

\* one required section missing and a score of the middle band
C14_Witness ==
  /\ vPc = "sent"
  /\ vResponse.status = 200
  /\ vResponse.data.overallScore = 64
  /\ Len(vResponse.data.recommendations) = 2
  /\ vResponse.data.recommendations[1] = << "Add a comprehensive", "features", "section" >>
  /\ vResponse.data.recommendations[2] =
       << "Consider adding optional sections to improve completeness" >>

\* the answer is the missing-input error and carries no result
IsMissingInputError ==
  /\ vResponse.status = 400
  /\ vResponse.error = "Either structuredData or content is required"
  /\ vResponse.data = NoValidation

\* the answer is a ValidationResult
IsValidationResult ==
  /\ vResponse.status = 200
  /\ vResponse.error = ""
  /\ DOMAIN vResponse.data.sectionAnalysis = FiveRequired \cup FourOptional

\* C17 as stated: the missing-input error is returned exactly when neither
\* structuredData nor content is supplied; a ValidationResult otherwise.
C17_ErrorIffNeitherSupplied ==
  vPc = "sent" =>
    IF ~vStructuredData.given /\ ~vContent.given
    THEN IsMissingInputError
    ELSE IsValidationResult

\* C17 amended: the missing-input error is returned exactly when
\* structuredData is not supplied and content is not supplied or is the
\* empty string; a ValidationResult otherwise.
C17_ErrorIffNeitherTruthy ==
  vPc = "sent" =>
    IF ~vStructuredData.given /\ (~vContent.given \/ vContent.text = <<>>)
    THEN IsMissingInputError
    ELSE IsValidationResult

\* an empty content and no structuredData: the error is returned
C17_Witness ==
  /\ vPc = "sent"
  /\ ~vStructuredData.given
  /\ vContent = Given(<<>>)
  /\ IsMissingInputError

\* ------------------------------------------------------------------------
\* services/aiAnalysis.js and POST /api/validation/analyze
\* ------------------------------------------------------------------------
\* the keys of the merged results, in the order analyzePRD issues the calls
AnalysisKeys ==
  << "completenessAnalysis", "clarityAnalysis", "marketFitAnalysis",
     "competitiveAnalysis", "recommendations" >>

\* the four keys calculateOverallScore reads (completenessScore, clarityScore,
\* marketFitScore, positioningScore)
ScoredKeys ==
  << "completenessAnalysis", "clarityAnalysis", "marketFitAnalysis", "competitiveAnalysis" >>

AnalysisTypes == { "comprehensive", "completeness", "clarity", "market-fit", "other" }

\* the switch of analyzePRD
IssuedFor(analysisType) ==
  CASE analysisType = "comprehensive" -> { AnalysisKeys[i] : i \in 1..5 }
    [] analysisType = "clarity"       -> { "clarityAnalysis" }
    [] analysisType = "market-fit"    -> { "marketFitAnalysis" }
    [] OTHER                          -> { "completenessAnalysis" }

\* the scores an AI answer may carry
Scores == { 0, 55, 60, 80 }

Pending == [ state |-> "pending", error |-> "", score |-> 0 ]

\* { xAnalysis: analysis }: the parsed answer
Parsed(score) == [ state |-> "ok", error |-> "", score |-> score ]

\* { xAnalysis: { error: error.message } }
Failed(message) == [ state |-> "error", error |-> message, score |-> 0 ]

Settled(tasks) == \A k \in DOMAIN tasks : tasks[k].state /= "pending"

\* (the recommendations carry no score: the field is 0 there and never read)
\* if (results.xAnalysis?.xScore): the key is there, carries a score, and
\* the score is truthy
ScoreIsPushed(results, k) ==
  /\ k \in DOMAIN results
  /\ results[k].state = "ok"
  /\ results[k].score /= 0

RECURSIVE PushedScores(_, _)
PushedScores(results, i) ==
  IF i > Len(ScoredKeys) THEN <<>>
  ELSE (IF ScoreIsPushed(results, ScoredKeys[i])
        THEN << results[ScoredKeys[i]].score >> ELSE <<>>)
       \o PushedScores(results, i + 1)

RECURSIVE SumSeq(_)
SumSeq(q) == IF q = <<>> THEN 0 ELSE Head(q) + SumSeq(Tail(q))

calculateOverallScore(results) ==
  LET scores == PushedScores(results, 1)
  IN  IF Len(scores) = 0 THEN 0 ELSE Round(SumSeq(scores), Len(scores))

NoAnalysis ==
  [ status |-> 0, success |-> FALSE, results |-> <<>>, overallScore |-> 0,
    executiveSummary |-> null ]

\* if (!prdData) return res.status(400)
AnalyzeRejected ==
  /\ anPc = "request"
  /\ ~anHasData
  /\ anResponse' = [ NoAnalysis EXCEPT !.status = 400 ]
  /\ anPc' = "sent"
  /\ UNCHANGED << anHasData, anType, anInclude, anTasks >>
  /\ UNCHANGED << exVars, vVars, qsVars, scVars, ciVars, fxVars, rgVars, upVars, ulVars, txVars, dbVars, pjVars, mnVars, auVars >>

\* analyzePRD pushes the calls of the analysis type and awaits Promise.all
IssueCalls ==
  /\ anPc = "request"
  /\ anHasData
  /\ anTasks' = [ k \in IssuedFor(anType) |-> Pending ]
  /\ anPc' = "awaiting"
  /\ UNCHANGED << anHasData, anType, anInclude, anResponse >>
  /\ UNCHANGED << exVars, vVars, qsVars, scVars, ciVars, fxVars, rgVars, upVars, ulVars, txVars, dbVars, pjVars, mnVars, auVars >>

\* the answer of one call parses
CallParsed ==
  /\ anPc = "awaiting"
  /\ \E k \in DOMAIN anTasks : \E score \in Scores :
       /\ anTasks[k].state = "pending"
       /\ k = "recommendations" => score = 0
       /\ anTasks' = [ anTasks EXCEPT ![k] = Parsed(score) ]
  /\ UNCHANGED << anHasData, anType, anInclude, anResponse, anPc >>
  /\ UNCHANGED << exVars, vVars, qsVars, scVars, ciVars, fxVars, rgVars, upVars, ulVars, txVars, dbVars, pjVars, mnVars, auVars >>

\* the API call of one dimension throws, or JSON.parse does: the catch of
\* that dimension returns the error marker
CallFailed ==
  /\ anPc = "awaiting"
  /\ \E k \in DOMAIN anTasks : \E message \in { "api error", "unparseable" } :
       /\ anTasks[k].state = "pending"
       /\ anTasks' = [ anTasks EXCEPT ![k] = Failed(message) ]
  /\ UNCHANGED << anHasData, anType, anInclude, anResponse, anPc >>
  /\ UNCHANGED << exVars, vVars, qsVars, scVars, ciVars, fxVars, rgVars, upVars, ulVars, txVars, dbVars, pjVars, mnVars, auVars >>

\* Promise.all resolves; without an executive summary the response is sent
AnalysisJoined ==
  /\ anPc = "awaiting"
  /\ Settled(anTasks)
  /\ anResponse' = [ status |-> IF anInclude THEN 0 ELSE 200,
                     success |-> TRUE,
                     results |-> anTasks,
                     overallScore |-> calculateOverallScore(anTasks),
                     executiveSummary |-> null ]
  /\ anPc' = IF anInclude THEN "summary" ELSE "sent"
  /\ UNCHANGED << anHasData, anType, anInclude, anTasks >>
  /\ UNCHANGED << exVars, vVars, qsVars, scVars, ciVars, fxVars, rgVars, upVars, ulVars, txVars, dbVars, pjVars, mnVars, auVars >>

\* generateExecutiveSummary returns, with the summary or with success: false
SummaryReturned ==
  /\ anPc = "summary"
  /\ \E summary \in { "summary", null } :
       anResponse' = [ anResponse EXCEPT !.status = 200, !.executiveSummary = summary ]
  /\ anPc' = "sent"
  /\ UNCHANGED << anHasData, anType, anInclude, anTasks >>
  /\ UNCHANGED << exVars, vVars, qsVars, scVars, ciVars, fxVars, rgVars, upVars, ulVars, txVars, dbVars, pjVars, mnVars, auVars >>

AnalyzeNext ==
  \/ AnalyzeRejected
  \/ IssueCalls
  \/ CallParsed
  \/ CallFailed
  \/ AnalysisJoined
  \/ SummaryReturned

\* ------------------------------------------------------------------------
\* Properties of the score combiner and of the analysis
\* ------------------------------------------------------------------------
\* the dimensions whose analysis is present and carries a score
PresentDimensions(results) ==
  { k \in { ScoredKeys[i] : i \in 1..4 } : k \in DOMAIN results /\ results[k].state = "ok" }

RECURSIVE SumOfPresent(_, _)
SumOfPresent(results, i) ==
  IF i > 4 THEN 0
  ELSE (IF ScoredKeys[i] \in PresentDimensions(results)
        THEN results[ScoredKeys[i]].score ELSE 0)
       + SumOfPresent(results, i + 1)

\* the mean of the present scores, a present 0 included, rounded; 0 if none
MeanOfPresent(results) ==
  IF PresentDimensions(results) = {} THEN 0
  ELSE Round(SumOfPresent(results, 1), Cardinality(PresentDimensions(results)))

\* C7: the overall score is the rounded unweighted mean of the scores of the
\* dimensions that are present, a present score of 0 counting as a score;
\* absent dimensions are skipped; with no dimension present it is 0.
C7_MeanOfPresentScores ==
  (anPc = "sent" /\ anResponse.status = 200) =>
    anResponse.overallScore = MeanOfPresent(anResponse.results)

\* C8: whatever calls of a comprehensive analysis fail, the request succeeds,
\* every other dimension's result is reported, a failed one carries only its
\* error marker, and the overall score is the mean of the scores of the
\* dimensions that succeeded.
C8_DimensionIsolation ==
  (anPc = "sent" /\ anHasData /\ anType = "comprehensive") =>
    /\ anResponse.status = 200
    /\ anResponse.success
    /\ DOMAIN anResponse.results = { AnalysisKeys[i] : i \in 1..5 }
    /\ \A k \in DOMAIN anResponse.results :
         /\ anResponse.results[k] = anTasks[k]
         /\ anTasks[k].state \in { "ok", "error" }
         /\ anTasks[k].state = "error" => anResponse.results[k] = Failed(anTasks[k].error)
    /\ LET succeeded == { i \in 1..4 : anTasks[ScoredKeys[i]].state = "ok" }
           total == SumSeq([ i \in 1..4 |->
                      IF i \in succeeded THEN anTasks[ScoredKeys[i]].score ELSE 0 ])
       IN  anResponse.overallScore =
             IF succeeded = {} THEN 0 ELSE Round(total, Cardinality(succeeded))

\* C12: the overall score of an analysis weights completeness 40%, clarity
\* 25%, market fit 20% and competitive position 15% (stated for an analysis
\* whose four dimensions all answered with a score above 0).
C12_DocumentedWeights ==
  ( /\ anPc = "sent"
    /\ anResponse.status = 200
    /\ anType = "comprehensive"
    /\ \A i \in 1..4 : /\ anResponse.results[ScoredKeys[i]].state = "ok"
                       /\ anResponse.results[ScoredKeys[i]].score > 0 )
  => anResponse.overallScore =
       Round(  40 * anResponse.results["completenessAnalysis"].score
             + 25 * anResponse.results["clarityAnalysis"].score
             + 20 * anResponse.results["marketFitAnalysis"].score
             + 15 * anResponse.results["competitiveAnalysis"].score, 100)

\* ------------------------------------------------------------------------
\* POST /api/validation/quick-score
\* ------------------------------------------------------------------------
\* the length of JSON.stringify of a string: the quotes, the characters,
\* and a line feed written as the two characters \n
RECURSIVE EscapedLength(_)
EscapedLength(s) ==
  IF s = <<>> THEN 0
  ELSE (IF Head(s) = NL THEN 2 ELSE TokLen(Head(s))) + EscapedLength(Tail(s))

JSONString(s) == 2 + EscapedLength(s)

\* ["a","b"]
RECURSIVE JSONItems(_)
JSONItems(list) ==
  IF list = <<>> THEN 0
  ELSE JSONString(Head(list)) + (IF Len(list) > 1 THEN 1 ELSE 0) + JSONItems(Tail(list))

JSONArray(list) == 2 + JSONItems(list)

\* {"name":"text","name":"text"}
RECURSIVE JSONEntries(_)
JSONEntries(obj) ==
  IF obj = <<>> THEN 0
  ELSE Len(Head(obj).name) + 3 + JSONString(Head(obj).text)
       + (IF Len(obj) > 1 THEN 1 ELSE 0) + JSONEntries(Tail(obj))

JSONObject(obj) == 2 + JSONEntries(obj)

\* JSON.stringify(prdData).length for the object extractStructuredData builds:
\* {"sections":{},"metrics":[],"stakeholders":[],"features":[],"risks":[],"timeline":null}
JSONLength(prdData) ==
    2 + 5
  + Len("sections") + 3 + JSONObject(prdData.sections)
  + Len("metrics") + 3 + JSONArray(prdData.metrics)
  + Len("stakeholders") + 3 + JSONArray(prdData.stakeholders)
  + Len("features") + 3 + JSONArray(prdData.features)
  + Len("risks") + 3 + JSONArray(prdData.risks)
  + Len("timeline") + 3 + Len("null")

quickMaxScore == 100

\* prdData.sections?.[section] && prdData.sections[section].length >= 100
SectionCountsFrom100(prdData, section) ==
  /\ HasKey(prdData.sections, section)
  /\ Get(prdData.sections, section) /= <<>>
  /\ Length(Get(prdData.sections, section)) >= 100

\* prdData.sections?.[section] && prdData.sections[section].length > 100
SectionCounts(prdData, section) ==
  /\ HasKey(prdData.sections, section)
  /\ Get(prdData.sections, section) /= <<>>
  /\ Length(Get(prdData.sections, section)) > 100

\* the forEach over the required sections: sectionScore / requiredSections.length each
RECURSIVE SectionPoints(_, _)
SectionPoints(prdData, list) ==
  IF list = <<>> THEN 0
  ELSE (IF SectionCounts(prdData, Head(list))
        THEN (((quickMaxScore \div 5) * 2) \div Len(requiredSections)) ELSE 0)
       + SectionPoints(prdData, Tail(list))

\* the second threshold written as the else of the first
ContentPointsElse(totalContent) ==
  LET contentScore == ((quickMaxScore \div 5) * 3) \div 2
  IN  IF totalContent > 10000 THEN (contentScore * 4) \div 10
      ELSE IF totalContent > 5000 THEN (contentScore * 6) \div 10
      ELSE 0

\* contentScore * 0.6 above 5000, contentScore * 0.4 above 10000
ContentPoints(totalContent) ==
  LET contentScore == ((quickMaxScore \div 5) * 3) \div 2
  IN    (IF totalContent > 5000 THEN (contentScore * 6) \div 10 ELSE 0)
      + (IF totalContent > 10000 THEN (contentScore * 4) \div 10 ELSE 0)

\* metricsScore * 0.5 for the metrics, metricsScore * 0.5 for the stakeholders
MetricsPoints(prdData) ==
  LET metricsScore == ((quickMaxScore \div 5) * 3) \div 2
  IN    (IF Len(prdData.metrics) > 0 THEN metricsScore \div 2 ELSE 0)
      + (IF Len(prdData.stakeholders) > 0 THEN metricsScore \div 2 ELSE 0)

\* the local score before the return
QuickRawScore(prdData) ==
  SectionPoints(prdData, requiredSections) + ContentPoints(JSONLength(prdData))
  + MetricsPoints(prdData)

\* a breakdown that reports the three components themselves
calculateQuickScoreParts(prdData) ==
  LET score == QuickRawScore(prdData)
  IN  [ overallScore |-> IF score < 100 THEN score ELSE 100,
        breakdown |-> [ sections |-> SectionPoints(prdData, requiredSections),
                        content  |-> ContentPoints(JSONLength(prdData)),
                        metrics  |-> MetricsPoints(prdData) ] ]

calculateQuickScore(prdData) ==
  LET score == QuickRawScore(prdData)
  IN  [ overallScore |-> IF score < 100 THEN score ELSE 100,
        breakdown |-> [ sections |-> Round(score * 4, 10),
                        content  |-> Round(score * 3, 10),
                        metrics  |-> Round(score * 3, 10) ] ]

\* the texts a posted section or list entry carries
Text100 == << "W16", SP, "four" >>

Text101 == << "W17" >>

TextBig == << "W900", NL, "W17" >>

\* the sections object: the required sections of L are longer than 100
\* characters, the others are 100 characters long or missing, two optional
\* sections may carry a big text
RECURSIVE QuickSections(_, _, _, _)
QuickSections(L, others, big, i) ==
  IF i > Len(SectionOrder) THEN <<>>
  ELSE LET n == SectionOrder[i]
           entry == IF n \in L THEN << [ name |-> n, text |-> Text101 ] >>
                    ELSE IF n \in big THEN << [ name |-> n, text |-> TextBig ] >>
                    ELSE IF others /\ n /= "userPersonas"
                    THEN << [ name |-> n, text |-> Text100 ] >>
                    ELSE <<>>
       IN  entry \o QuickSections(L, others, big, i + 1)

\* a request without prdData
NoPrdData ==
  [ given |-> FALSE, sections |-> <<>>, metrics |-> <<>>, stakeholders |-> <<>>,
    features |-> <<>>, risks |-> <<>> ]

PostedPrdData ==
  { [ given        |-> TRUE,
      sections     |-> QuickSections(L, others, big, 1),
      metrics      |-> metrics,
      stakeholders |-> stakeholders,
      features     |-> features,
      risks        |-> risks ] :
      L \in SUBSET { requiredSections[i] : i \in 1..5 },
      others \in BOOLEAN,
      big \in SUBSET { "timeline", "risks" },
      metrics \in { <<>>, << <<"42">>, <<"7", SP, "users">> >> },
      stakeholders \in { <<>>, << <<"customers">> >> },
      features \in { <<>>, << TextBig >> },
      risks \in { <<>>, << <<"alpha">> >> } }

NoQuickScore ==
  [ status |-> 0, overallScore |-> 0,
    breakdown |-> [ sections |-> 0, content |-> 0, metrics |-> 0 ] ]

\* if (!prdData) return res.status(400)
QuickRejected ==
  /\ qsPc = "request"
  /\ ~qsPrdData.given
  /\ qsResponse' = [ NoQuickScore EXCEPT !.status = 400 ]
  /\ qsPc' = "sent"
  /\ UNCHANGED << qsPrdData, qsScore >>
  /\ UNCHANGED << exVars, vVars, anVars, scVars, ciVars, fxVars, rgVars, upVars, ulVars, txVars, dbVars, pjVars, mnVars, auVars >>

\* res.json({ success: true, data: quickScore })
QuickScore ==
  /\ qsPc = "request"
  /\ qsPrdData.given
  /\ qsScore' = QuickRawScore(qsPrdData)
  /\ qsResponse' = [ status       |-> 200,
                     overallScore |-> calculateQuickScore(qsPrdData).overallScore,
                     breakdown    |-> calculateQuickScore(qsPrdData).breakdown ]
  /\ qsPc' = "sent"
  /\ UNCHANGED qsPrdData
  /\ UNCHANGED << exVars, vVars, anVars, scVars, ciVars, fxVars, rgVars, upVars, ulVars, txVars, dbVars, pjVars, mnVars, auVars >>

QuickNext == QuickRejected \/ QuickScore

\* ------------------------------------------------------------------------
\* Properties of the quick scorer
\* ------------------------------------------------------------------------
\* the required sections that are in sections with more than 100 characters
LongRequired ==
  { n \in FiveRequired :
      \E i \in 1..Len(qsPrdData.sections) :
        /\ qsPrdData.sections[i].name = n
        /\ Length(qsPrdData.sections[i].text) > 100 }

\* 8 per long required section, 18 and a further 12 for the serialized
\* length, 15 for the metrics and 15 for the stakeholders
ThreeComponents ==
    8 * Cardinality(LongRequired)
  + (IF JSONLength(qsPrdData) > 5000 THEN 18 ELSE 0)
  + (IF JSONLength(qsPrdData) > 10000 THEN 12 ELSE 0)
  + (IF qsPrdData.metrics /= <<>> THEN 15 ELSE 0)
  + (IF qsPrdData.stakeholders /= <<>> THEN 15 ELSE 0)

\* C9: the raw sum is 8 for each required section longer than 100
\* characters, 18 above a serialized length of 5000 and 12 more above 10000,
\* 15 for a non-empty metrics list and 15 for a non-empty stakeholders list;
\* the features and risks lists and the optional sections add nothing of
\* their own.
C9_QuickScoreComponents ==
  (qsPc = "sent" /\ qsResponse.status = 200) => qsScore = ThreeComponents

\* some required sections are long, others exactly 100 characters, optional
\* sections and the features and risks lists are there, the stakeholders not
C9_Witness ==
  /\ qsPc = "sent"
  /\ qsResponse.status = 200
  /\ Cardinality(LongRequired) \in 1..4
  /\ \E n \in FiveRequired \ LongRequired : HasKey(qsPrdData.sections, n)
  /\ HasKey(qsPrdData.sections, "timeline")
  /\ qsPrdData.features /= <<>>
  /\ qsPrdData.risks /= <<>>
  /\ qsPrdData.metrics /= <<>>
  /\ qsPrdData.stakeholders = <<>>
  /\ JSONLength(qsPrdData) > 5000
  /\ JSONLength(qsPrdData) <= 10000
  /\ qsScore = 8 * Cardinality(LongRequired) + 18 + 15

\* C10: overallScore is the sum of the three components clamped to 0..100,
\* an integer of 0..100; five long required sections, a serialized length
\* above 10000 and non-empty metrics and stakeholders give exactly 100.
C10_QuickScoreOverall ==
  (qsPc = "sent" /\ qsResponse.status = 200) =>
    /\ qsResponse.overallScore \in 0..100
    /\ qsResponse.overallScore =
         (IF ThreeComponents > 100 THEN 100
          ELSE IF ThreeComponents < 0 THEN 0 ELSE ThreeComponents)
    /\ ( /\ LongRequired = FiveRequired
         /\ JSONLength(qsPrdData) > 10000
         /\ qsPrdData.metrics /= <<>>
         /\ qsPrdData.stakeholders /= <<>> )
       => qsResponse.overallScore = 100

\* the full case
C10_Witness ==
  /\ qsPc = "sent"
  /\ qsResponse.status = 200
  /\ LongRequired = FiveRequired
  /\ JSONLength(qsPrdData) > 10000
  /\ qsPrdData.metrics /= <<>>
  /\ qsPrdData.stakeholders /= <<>>
  /\ qsResponse.overallScore = 100

\* C11: the breakdown is the 40% / 30% / 30% split of the final overall
\* score, each part rounded, and not the three component sums.
C11_BreakdownSplitsOverall ==
  (qsPc = "sent" /\ qsResponse.status = 200) =>
    /\ qsResponse.breakdown.sections = Round(4 * qsResponse.overallScore, 10)
    /\ qsResponse.breakdown.content = Round(3 * qsResponse.overallScore, 10)
    /\ qsResponse.breakdown.metrics = Round(3 * qsResponse.overallScore, 10)

\* a score of 4 x 8 + 18 + 15 whose split differs from every component
C11_Witness ==
  /\ qsPc = "sent"
  /\ qsResponse.status = 200
  /\ qsResponse.overallScore = 65
  /\ Cardinality(LongRequired) = 4
  /\ qsResponse.breakdown = [ sections |-> 26, content |-> 20, metrics |-> 20 ]

\* ------------------------------------------------------------------------
\* CompetitiveIntelligenceService.getCompetitiveIntelligence
\* ------------------------------------------------------------------------
\* the lookups, in the order of intelligencePromises
Lookups ==
  << "marketSize", "competitorAnalysis", "industryTrends", "fundingData",
     "marketPositioning" >>

LookupNames == { Lookups[i] : i \in 1..Len(Lookups) }

\* what a lookup answers: the table had an entry for the keywords, or not
LookupAnswers == { "Unknown", "found" }

\* the promise of a lookup; failed records that its catch block ran
LookupPending == [ state |-> "pending", value |-> <<>>, failed |-> FALSE ]

\* return { ... }
LookupValue(k, answer) == [ state |-> "fulfilled", value |-> << k, answer >>, failed |-> FALSE ]

\* catch (error) { logger.error(...); return null; }
LookupNull == [ state |-> "fulfilled", value |-> << null >>, failed |-> TRUE ]

\* a join that keeps the values only when every lookup has one
IntelligenceAllOrNothing(results) ==
  [ k \in DOMAIN results |->
      IF \A j \in DOMAIN results : results[j].state = "fulfilled" /\ ~results[j].failed
      THEN results[k].value ELSE << null >> ]

\* results[i].status === 'fulfilled' ? results[i].value : null
Intelligence(results) ==
  [ k \in DOMAIN results |->
      IF results[k].state = "fulfilled" THEN results[k].value ELSE << null >> ]

NoIntelligence == [ success |-> FALSE, error |-> "", data |-> <<>> ]

\* the posted prdData: its sections are strings, or one of them is not and
\* toLowerCase is not a function of it
PostedIntelligenceData == { "strings", "notStrings" }

\* extractMarketKeywords throws: catch (error) { return { success: false } }
GatheringFailed ==
  /\ ciPc = "call"
  /\ ciPrdData = "notStrings"
  /\ ciResult' = [ success |-> FALSE, error |-> "TypeError", data |-> <<>> ]
  /\ ciPc' = "returned"
  /\ UNCHANGED << ciPrdData, ciTasks >>
  /\ UNCHANGED << exVars, vVars, anVars, qsVars, scVars, fxVars, rgVars, upVars, ulVars, txVars, dbVars, pjVars, mnVars, auVars >>

\* intelligencePromises = [ ... ]; await Promise.allSettled
IssueLookups ==
  /\ ciPc = "call"
  /\ ciPrdData = "strings"
  /\ ciTasks' = [ k \in LookupNames |-> LookupPending ]
  /\ ciPc' = "awaiting"
  /\ UNCHANGED << ciPrdData, ciResult >>
  /\ UNCHANGED << exVars, vVars, anVars, qsVars, scVars, fxVars, rgVars, upVars, ulVars, txVars, dbVars, pjVars, mnVars, auVars >>

\* a lookup returns its object
LookupReturned ==
  /\ ciPc = "awaiting"
  /\ \E k \in LookupNames, answer \in LookupAnswers :
       /\ ciTasks[k].state = "pending"
       /\ ciTasks' = [ ciTasks EXCEPT ![k] = LookupValue(k, answer) ]
  /\ UNCHANGED << ciPrdData, ciResult, ciPc >>
  /\ UNCHANGED << exVars, vVars, anVars, qsVars, scVars, fxVars, rgVars, upVars, ulVars, txVars, dbVars, pjVars, mnVars, auVars >>

\* a lookup throws inside its try block and returns null
LookupCaught ==
  /\ ciPc = "awaiting"
  /\ \E k \in LookupNames :
       /\ ciTasks[k].state = "pending"
       /\ ciTasks' = [ ciTasks EXCEPT ![k] = LookupNull ]
  /\ UNCHANGED << ciPrdData, ciResult, ciPc >>
  /\ UNCHANGED << exVars, vVars, anVars, qsVars, scVars, fxVars, rgVars, upVars, ulVars, txVars, dbVars, pjVars, mnVars, auVars >>

\* return { success: true, data: intelligence }
IntelligenceJoined ==
  /\ ciPc = "awaiting"
  /\ Settled(ciTasks)
  /\ ciResult' = [ success |-> TRUE, error |-> "", data |-> Intelligence(ciTasks) ]
  /\ ciPc' = "returned"
  /\ UNCHANGED << ciPrdData, ciTasks >>
  /\ UNCHANGED << exVars, vVars, anVars, qsVars, scVars, fxVars, rgVars, upVars, ulVars, txVars, dbVars, pjVars, mnVars, auVars >>

IntelligenceNext ==
  \/ GatheringFailed
  \/ IssueLookups
  \/ LookupReturned
  \/ LookupCaught
  \/ IntelligenceJoined

\* C16: once the five lookups were started the call returns success, and
\* each field holds the value of its own lookup, or null exactly when that
\* lookup failed; the failures of the other lookups change neither.
C16_IndependentLookups ==
  (ciPc = "returned" /\ ciTasks /= <<>>) =>
    /\ ciResult.success
    /\ DOMAIN ciResult.data = LookupNames
    /\ \A k \in LookupNames :
         /\ ciResult.data[k] = << null >> <=> ciTasks[k].failed
         /\ ~ciTasks[k].failed =>
              /\ ciResult.data[k] = ciTasks[k].value
              /\ ciResult.data[k][1] = k

\* two lookups failed, three fields hold their values
C16_Witness ==
  /\ ciPc = "returned"
  /\ ciResult.success
  /\ ciTasks["marketSize"].failed
  /\ ciTasks["fundingData"].failed
  /\ ciResult.data["marketSize"] = << null >>
  /\ ciResult.data["competitorAnalysis"] = << "competitorAnalysis", "found" >>
  /\ ciResult.data["industryTrends"] = << "industryTrends", "Unknown" >>
  /\ ciResult.data["marketPositioning"] = << "marketPositioning", "found" >>

\* ------------------------------------------------------------------------
\* services/documentParser.js: the feature extractors
\* ------------------------------------------------------------------------
\* The elements of the extractor patterns. A match of the elements k.. of an
\* alternative that starts at token i is given by the position after its
\* last token; 0 says there is none.
Lit(S) == [ kind |-> "lit", set |-> S ]

\* \s*
Ws0 == [ kind |-> "ws0", set |-> {} ]

\* \s+
Ws1 == [ kind |-> "ws1", set |-> {} ]

\* .*?
Lazy == [ kind |-> "lazy", set |-> {} ]

\* [^\n]+
Rest == [ kind |-> "rest", set |-> {} ]

\* \d+(?:\.\d+)?
Num == [ kind |-> "num", set |-> {} ]

\* \d+(?:,\d{3})*
Count == [ kind |-> "int", set |-> {} ]

\* [A-Z][a-z]+(?:\s+[A-Z][a-z]+)* under the flag i
Words == [ kind |-> "words", set |-> {} ]

\* [A-Z][a-z]+ under the flag i: two letters or more
IsLetters(t) == IsWordTok(t) /\ ~IsNumber(t) /\ BlockWords(t) = 0 /\ Len(t) >= 2

\* the position after the white space that starts at i
RECURSIVE RunEnd(_, _)
RunEnd(s, i) == IF i <= Len(s) /\ IsSpace(s[i]) THEN RunEnd(s, i + 1) ELSE i

\* the position of the line break at or after i, or the end of the text
RECURSIVE LineEnd(_, _)
LineEnd(s, i) == IF i <= Len(s) /\ s[i] /= NL THEN LineEnd(s, i + 1) ELSE i

\* the position after the longest run of words that starts at i
RECURSIVE WordsEnd(_, _)
WordsEnd(s, i) ==
  LET j == RunEnd(s, i + 1)
  IN  IF j > i + 1 /\ j <= Len(s) /\ IsLetters(s[j]) THEN WordsEnd(s, j) ELSE i + 1

RECURSIVE MatchFrom(_, _, _, _)
RECURSIVE TryDown(_, _, _, _, _)
RECURSIVE TryUp(_, _, _, _, _)
\* a greedy element: the longest choice first
TryDown(alt, k, s, hi, lo) ==
  IF hi < lo THEN 0
  ELSE LET r == MatchFrom(alt, k, s, hi)
       IN  IF r /= 0 THEN r ELSE TryDown(alt, k, s, hi - 1, lo)

\* a lazy element: the shortest choice first
TryUp(alt, k, s, lo, hi) ==
  IF lo > hi THEN 0
  ELSE LET r == MatchFrom(alt, k, s, lo)
       IN  IF r /= 0 THEN r ELSE TryUp(alt, k, s, lo + 1, hi)

MatchFrom(alt, k, s, i) ==
  IF k > Len(alt) THEN i
  ELSE LET e == alt[k]
       IN  CASE e.kind = "lit" ->
                  IF i <= Len(s) /\ Lower(s[i]) \in e.set
                  THEN MatchFrom(alt, k + 1, s, i + 1) ELSE 0
             [] e.kind = "ws0" -> TryDown(alt, k + 1, s, RunEnd(s, i), i)
             [] e.kind = "ws1" -> TryDown(alt, k + 1, s, RunEnd(s, i), i + 1)
             [] e.kind = "lazy" -> TryUp(alt, k + 1, s, i, LineEnd(s, i))
             [] e.kind = "rest" -> TryDown(alt, k + 1, s, LineEnd(s, i), i + 1)
             [] e.kind = "num" ->
                  IF i <= Len(s) /\ IsNumber(s[i])
                  THEN IF i + 2 <= Len(s) /\ s[i + 1] = "." /\ IsNumber(s[i + 2])
                       THEN LET r == MatchFrom(alt, k + 1, s, i + 3)
                            IN  IF r /= 0 THEN r ELSE MatchFrom(alt, k + 1, s, i + 1)
                       ELSE MatchFrom(alt, k + 1, s, i + 1)
                  ELSE 0
             [] e.kind = "int" ->
                  IF i <= Len(s) /\ IsNumber(s[i])
                  THEN MatchFrom(alt, k + 1, s, i + 1) ELSE 0
             [] e.kind = "words" ->
                  IF i <= Len(s) /\ IsLetters(s[i])
                  THEN MatchFrom(alt, k + 1, s, WordsEnd(s, i)) ELSE 0

\* the first alternative of the pattern that matches at i
RECURSIVE MatchEnd(_, _, _, _)
MatchEnd(pattern, a, s, i) ==
  IF a > Len(pattern) THEN 0
  ELSE LET r == MatchFrom(pattern[a], 1, s, i)
       IN  IF r /= 0 THEN r ELSE MatchEnd(pattern, a + 1, s, i)

\* String.prototype.match with the flag g: the matches from left to right,
\* each search starting where the match before ended
RECURSIVE MatchAll(_, _, _)
MatchAll(pattern, s, i) ==
  IF i > Len(s) THEN <<>>
  ELSE LET e == MatchEnd(pattern, 1, s, i)
       IN  IF e > i
           THEN << SubSeq(s, i, e - 1) >> \o MatchAll(pattern, s, e)
           ELSE MatchAll(pattern, s, i + 1)

metricPatterns ==
  << << << Num, Lit({ "%" }), Ws0,
           Lit({ "increase", "decrease", "growth", "reduction" }) >> >>,
     << << Count, Ws0, Lit({ "users", "customers", "revenue", "conversions" }) >> >>,
     << << Lit({ "target", "goal", "objective" }), Lazy, Num >> >> >>

stakeholderPatterns ==
  << << << Lit({ "stakeholder", "stakeholders", "user", "users", "customer",
                 "customers" }), Lazy, Words >>,
        << Lit({ "target" }), Ws1, Lit({ "audience" }), Lazy, Words >> >>,
     << << Lit({ "for", "targeting" }), Ws1, Words >> >> >>

featurePatterns ==
  << << << Lit({ "feature", "functionality", "capability" }), Lit({ ":" }), Ws0, Rest >> >>,
     << << Lit({ "will", "should", "must" }), Ws1,
           Lit({ "support", "provide", "enable", "allow" }), Ws1, Rest >> >> >>

riskPatterns ==
  << << << Lit({ "risk", "challenge", "concern", "threat" }), Lit({ ":" }), Ws0, Rest >> >>,
     << << Lit({ "potential", "possible", "likely" }), Ws1,
           Lit({ "risk", "issue", "problem" }), Ws0, Rest >> >> >>

\* patterns.forEach(pattern => { if (matches) list.push(...matches) })
RECURSIVE PushMatches(_, _, _)
PushMatches(patterns, p, content) ==
  IF p > Len(patterns) THEN <<>>
  ELSE MatchAll(patterns[p], content, 1) \o PushMatches(patterns, p + 1, content)

\* matches.map(match => match.trim())
Trimmed(matches) == [ i \in 1..Len(matches) |-> Trim(matches[i]) ]

\* a copy that drops an entry only when it repeats the entry before it
RECURSIVE UniqueNeighbours(_)
UniqueNeighbours(q) ==
  IF q = <<>> THEN <<>>
  ELSE LET r == UniqueNeighbours(SubSeq(q, 1, Len(q) - 1))
       IN  IF Len(q) > 1 /\ q[Len(q) - 1] = q[Len(q)] THEN r ELSE Append(r, q[Len(q)])

\* [...new Set(list)]: the first of equal entries stays, in place
RECURSIVE Unique(_)
Unique(q) ==
  IF q = <<>> THEN <<>>
  ELSE LET r == Unique(SubSeq(q, 1, Len(q) - 1))
       IN  IF \E i \in 1..Len(r) : r[i] = q[Len(q)] THEN r ELSE Append(r, q[Len(q)])

extractMetrics(content) == Unique(PushMatches(metricPatterns, 1, content))

extractStakeholders(content) ==
  Unique(Trimmed(PushMatches(stakeholderPatterns, 1, content)))

extractFeatures(content) == Unique(Trimmed(PushMatches(featurePatterns, 1, content)))

extractRisks(content) == Unique(Trimmed(PushMatches(riskPatterns, 1, content)))

\* the lines of the texts the extractors are run on
FragmentLines ==
  { << "goal", ":", SP, "42" >>,
    << "Goal", ":", SP, "42", ".", "7", "%", SP, SP, "growth" >>,
    << "7", SP, "users", SP, "for", SP, "Product", SP, "Managers" >>,
    << "targeting", SP, "Managers", SP >>,
    << "feature", ":", SP, "login" >>,
    << "feature", ":", SP, "login", SP >>,
    << "must", SP, "allow", SP, "login" >>,
    << "risk", ":", SP, "churn" >>,
    << "potential", SP, "risk", ":", SP, "churn", SP >> }

FragmentTexts ==
  { Join(ls) : ls \in UNION { [ 1..n -> FragmentLines ] : n \in 0..MaxFragments } }

\* structuredData.metrics = this.extractMetrics(content)
ExtractMetrics ==
  /\ fxPc = "metrics"
  /\ fxMetrics' = extractMetrics(fxContent)
  /\ fxPc' = "stakeholders"
  /\ UNCHANGED << fxContent, fxStakeholders, fxFeatures, fxRisks >>
  /\ UNCHANGED << exVars, vVars, anVars, qsVars, scVars, ciVars, rgVars, upVars, ulVars, txVars, dbVars, pjVars, mnVars, auVars >>

\* structuredData.stakeholders = this.extractStakeholders(content)
ExtractStakeholders ==
  /\ fxPc = "stakeholders"
  /\ fxStakeholders' = extractStakeholders(fxContent)
  /\ fxPc' = "features"
  /\ UNCHANGED << fxContent, fxMetrics, fxFeatures, fxRisks >>
  /\ UNCHANGED << exVars, vVars, anVars, qsVars, scVars, ciVars, rgVars, upVars, ulVars, txVars, dbVars, pjVars, mnVars, auVars >>

\* structuredData.features = this.extractFeatures(content)
ExtractFeatures ==
  /\ fxPc = "features"
  /\ fxFeatures' = extractFeatures(fxContent)
  /\ fxPc' = "risks"
  /\ UNCHANGED << fxContent, fxMetrics, fxStakeholders, fxRisks >>
  /\ UNCHANGED << exVars, vVars, anVars, qsVars, scVars, ciVars, rgVars, upVars, ulVars, txVars, dbVars, pjVars, mnVars, auVars >>

\* structuredData.risks = this.extractRisks(content); return structuredData
ExtractRisks ==
  /\ fxPc = "risks"
  /\ fxRisks' = extractRisks(fxContent)
  /\ fxPc' = "done"
  /\ UNCHANGED << fxContent, fxMetrics, fxStakeholders, fxFeatures >>
  /\ UNCHANGED << exVars, vVars, anVars, qsVars, scVars, ciVars, rgVars, upVars, ulVars, txVars, dbVars, pjVars, mnVars, auVars >>

FeatureListsNext ==
  \/ ExtractMetrics
  \/ ExtractStakeholders
  \/ ExtractFeatures
  \/ ExtractRisks

\* the entries of a list, as a set
Entries(q) == { q[i] : i \in 1..Len(q) }

\* no entry of the list is there twice
NoDuplicates(q) == \A i, j \in 1..Len(q) : q[i] = q[j] => i = j

\* C19: none of the four lists has an entry twice, upper and lower case
\* being different, and each list holds exactly the fragments its patterns
\* match in the content, trimmed.
C19_ListsAreSetsOfMatches ==
  fxPc = "done" =>
    /\ NoDuplicates(fxMetrics)
    /\ NoDuplicates(fxStakeholders)
    /\ NoDuplicates(fxFeatures)
    /\ NoDuplicates(fxRisks)
    /\ Entries(fxMetrics) = Entries(PushMatches(metricPatterns, 1, fxContent))
    /\ Entries(fxStakeholders) =
         { Trim(m) : m \in Entries(PushMatches(stakeholderPatterns, 1, fxContent)) }
    /\ Entries(fxFeatures) =
         { Trim(m) : m \in Entries(PushMatches(featurePatterns, 1, fxContent)) }
    /\ Entries(fxRisks) =
         { Trim(m) : m \in Entries(PushMatches(riskPatterns, 1, fxContent)) }

\* a goal matched three times in two spellings, with another line between
\* the equal ones: two entries
C19_Witness ==
  /\ fxPc = "done"
  /\ fxContent = << "goal", ":", SP, "42", NL, "Goal", ":", SP, "42", ".", "7", "%", SP,
                    SP, "growth", NL, "goal", ":", SP, "42" >>
  /\ Len(PushMatches(metricPatterns, 1, fxContent)) = 4
  /\ fxMetrics = << << "42", ".", "7", "%", SP, SP, "growth" >>, << "goal", ":", SP, "42" >>,
                    << "Goal", ":", SP, "42", ".", "7" >> >>

\* ------------------------------------------------------------------------
\* routes/users.js: POST /register and the in-memory user store
\* ------------------------------------------------------------------------
\* the posted bodies: an email with the other fields in order, or a body
\* registerSchema turns down
RegisterEmails == { "ann@example.com", "bob@example.com" }

RegisterBodies ==
  { [ valid |-> TRUE, email |-> e ] : e \in RegisterEmails }
  \cup { [ valid |-> FALSE, email |-> "" ] }

\* a request that has just arrived
Received(body) ==
  [ body |-> body, pc |-> "received", existing |-> FALSE, status |-> 0, error |-> "" ]

\* users.find(user => user.email === email)
findUserByEmail(users, email) == \E i \in 1..Len(users) : users[i].email = email

\* users.findIndex(u => u.id === user.id) >= 0 ? users[existingIndex] = user
\* : users.push(user)
saveUser(users, user) ==
  IF \E i \in 1..Len(users) : users[i].id = user.id
  THEN [ i \in 1..Len(users) |-> IF users[i].id = user.id THEN user ELSE users[i] ]
  ELSE Append(users, user)

\* registerSchema.validate fails: 400 with the message of Joi
RegisterInvalid ==
  /\ \E r \in 1..Len(rgRequests) :
       /\ rgRequests[r].pc = "received"
       /\ ~rgRequests[r].body.valid
       /\ rgRequests' = [ rgRequests EXCEPT ![r].pc = "sent", ![r].status = 400,
                                            ![r].error = "validation" ]
  /\ UNCHANGED << rgUsers, rgCounter >>
  /\ UNCHANGED << exVars, vVars, anVars, qsVars, scVars, ciVars, fxVars, upVars, ulVars, txVars, dbVars, pjVars, mnVars, auVars >>

\* the body is valid: findUserByEmail reads the array, the handler awaits
RegisterLookup ==
  /\ \E r \in 1..Len(rgRequests) :
       /\ rgRequests[r].pc = "received"
       /\ rgRequests[r].body.valid
       /\ rgRequests' = [ rgRequests EXCEPT
                            ![r].pc = "looked",
                            ![r].existing = findUserByEmail(rgUsers, rgRequests[r].body.email) ]
  /\ UNCHANGED << rgUsers, rgCounter >>
  /\ UNCHANGED << exVars, vVars, anVars, qsVars, scVars, ciVars, fxVars, upVars, ulVars, txVars, dbVars, pjVars, mnVars, auVars >>

\* if (existingUser) return res.status(400)
RegisterExists ==
  /\ \E r \in 1..Len(rgRequests) :
       /\ rgRequests[r].pc = "looked"
       /\ rgRequests[r].existing
       /\ rgRequests' = [ rgRequests EXCEPT ![r].pc = "sent", ![r].status = 400,
                                            ![r].error = "User already exists" ]
  /\ UNCHANGED << rgUsers, rgCounter >>
  /\ UNCHANGED << exVars, vVars, anVars, qsVars, scVars, ciVars, fxVars, upVars, ulVars, txVars, dbVars, pjVars, mnVars, auVars >>

\* await bcrypt.hash(password, saltRounds)
RegisterHash ==
  /\ \E r \in 1..Len(rgRequests) :
       /\ rgRequests[r].pc = "looked"
       /\ ~rgRequests[r].existing
       /\ rgRequests' = [ rgRequests EXCEPT ![r].pc = "hashing" ]
  /\ UNCHANGED << rgUsers, rgCounter >>
  /\ UNCHANGED << exVars, vVars, anVars, qsVars, scVars, ciVars, fxVars, upVars, ulVars, txVars, dbVars, pjVars, mnVars, auVars >>

\* the hash is there: id: generateUserId(), await saveUser(user)
RegisterSave ==
  /\ \E r \in 1..Len(rgRequests) :
       /\ rgRequests[r].pc = "hashing"
       /\ rgUsers' = saveUser(rgUsers, [ id |-> rgCounter, email |-> rgRequests[r].body.email ])
       /\ rgCounter' = rgCounter + 1
       /\ rgRequests' = [ rgRequests EXCEPT ![r].pc = "saved" ]
  /\ UNCHANGED << exVars, vVars, anVars, qsVars, scVars, ciVars, fxVars, upVars, ulVars, txVars, dbVars, pjVars, mnVars, auVars >>

\* res.status(201).json({ success: true, data: { user, token } })
RegisterCreated ==
  /\ \E r \in 1..Len(rgRequests) :
       /\ rgRequests[r].pc = "saved"
       /\ rgRequests' = [ rgRequests EXCEPT ![r].pc = "sent", ![r].status = 201 ]
  /\ UNCHANGED << rgUsers, rgCounter >>
  /\ UNCHANGED << exVars, vVars, anVars, qsVars, scVars, ciVars, fxVars, upVars, ulVars, txVars, dbVars, pjVars, mnVars, auVars >>

RegisterNext ==
  \/ RegisterInvalid
  \/ RegisterLookup
  \/ RegisterExists
  \/ RegisterHash
  \/ RegisterSave
  \/ RegisterCreated

\* C20: whatever the interleaving of the register requests, no two users of
\* the store have the same email, and of the requests for one email at most
\* one is answered 201, the others 400 'User already exists'.
C20_UniqueEmails ==
  /\ \A i, j \in 1..Len(rgUsers) : rgUsers[i].email = rgUsers[j].email => i = j
  /\ \A r, q \in 1..Len(rgRequests) :
       ( /\ r /= q
         /\ rgRequests[r].body.valid
         /\ rgRequests[r].body = rgRequests[q].body
         /\ rgRequests[r].status = 201
         /\ rgRequests[q].pc = "sent" )
       => ( rgRequests[q].status = 400 /\ rgRequests[q].error = "User already exists" )

\* ------------------------------------------------------------------------
\* routes/users.js: PUT /profile, POST /change-password and POST /login on
\* one stored user
\* ------------------------------------------------------------------------
\* bcrypt.hash
Hash(password) == << "hash", password >>

\* bcrypt.compare
Compare(password, hashed) == hashed = Hash(password)

\* the user object register has stored
StoredUser ==
  [ name |-> "old name", password |-> Hash("secret"), lastLogin |-> "never" ]

UserRequestKinds == { "profile", "password", "login" }

\* a request that has just arrived; user is the object its variable user
\* refers to, 0 before it is assigned
Arrived(password) ==
  [ pc |-> "received", user |-> 0, password |-> password, valid |-> FALSE, status |-> 0 ]

\* const user = await findUserById(decoded.userId) / findUserByEmail(email):
\* a reference to the object the array holds
UserFind ==
  /\ \E k \in UserRequestKinds :
       /\ upRequests[k].pc = "received"
       /\ upRequests' = [ upRequests EXCEPT ![k].pc = "found", ![k].user = upSlot ]
  /\ UNCHANGED << upObjects, upSlot >>
  /\ UNCHANGED << exVars, vVars, anVars, qsVars, scVars, ciVars, fxVars, rgVars, ulVars, txVars, dbVars, pjVars, mnVars, auVars >>

\* const updatedUser = { ...user, ...updates, updatedAt }: a new object;
\* saveUser(updatedUser): users[existingIndex] = updatedUser
ProfileSave ==
  /\ upRequests["profile"].pc = "found"
  /\ upObjects' = Append(upObjects, [ upObjects[upRequests["profile"].user]
                                        EXCEPT !.name = "new name" ])
  /\ upSlot' = Len(upObjects) + 1
  /\ upRequests' = [ upRequests EXCEPT !["profile"].pc = "saved" ]
  /\ UNCHANGED << exVars, vVars, anVars, qsVars, scVars, ciVars, fxVars, rgVars, ulVars, txVars, dbVars, pjVars, mnVars, auVars >>

\* await bcrypt.compare(password, user.password)
CredentialsCompare ==
  /\ \E k \in { "password", "login" } :
       /\ upRequests[k].pc = "found"
       /\ upRequests' = [ upRequests EXCEPT
                            ![k].pc = "compared",
                            ![k].valid = Compare(upRequests[k].password,
                                                 upObjects[upRequests[k].user].password) ]
  /\ UNCHANGED << upObjects, upSlot >>
  /\ UNCHANGED << exVars, vVars, anVars, qsVars, scVars, ciVars, fxVars, rgVars, ulVars, txVars, dbVars, pjVars, mnVars, auVars >>

\* if (!isValidPassword) return res.status(401)
CredentialsRejected ==
  /\ \E k \in { "password", "login" } :
       /\ upRequests[k].pc = "compared"
       /\ ~upRequests[k].valid
       /\ upRequests' = [ upRequests EXCEPT ![k].pc = "sent", ![k].status = 401 ]
  /\ UNCHANGED << upObjects, upSlot >>
  /\ UNCHANGED << exVars, vVars, anVars, qsVars, scVars, ciVars, fxVars, rgVars, ulVars, txVars, dbVars, pjVars, mnVars, auVars >>

\* await bcrypt.hash(newPassword, saltRounds)
PasswordHash ==
  /\ upRequests["password"].pc = "compared"
  /\ upRequests["password"].valid
  /\ upRequests' = [ upRequests EXCEPT !["password"].pc = "hashing" ]
  /\ UNCHANGED << upObjects, upSlot >>
  /\ UNCHANGED << exVars, vVars, anVars, qsVars, scVars, ciVars, fxVars, rgVars, ulVars, txVars, dbVars, pjVars, mnVars, auVars >>

\* user.password = hashedNewPassword; saveUser(user): the object found at
\* the start is written to, and put into the array
PasswordSave ==
  /\ upRequests["password"].pc = "hashing"
  /\ upObjects' = [ upObjects EXCEPT ![upRequests["password"].user].password =
                                        Hash("changed") ]
  /\ upSlot' = upRequests["password"].user
  /\ upRequests' = [ upRequests EXCEPT !["password"].pc = "saved" ]
  /\ UNCHANGED << exVars, vVars, anVars, qsVars, scVars, ciVars, fxVars, rgVars, ulVars, txVars, dbVars, pjVars, mnVars, auVars >>

\* user.lastLogin = new Date().toISOString(); saveUser(user)
LoginSave ==
  /\ upRequests["login"].pc = "compared"
  /\ upRequests["login"].valid
  /\ upObjects' = [ upObjects EXCEPT ![upRequests["login"].user].lastLogin = "now" ]
  /\ upSlot' = upRequests["login"].user
  /\ upRequests' = [ upRequests EXCEPT !["login"].pc = "saved" ]
  /\ UNCHANGED << exVars, vVars, anVars, qsVars, scVars, ciVars, fxVars, rgVars, ulVars, txVars, dbVars, pjVars, mnVars, auVars >>

\* res.json({ success: true, ... })
UserRespond ==
  /\ \E k \in UserRequestKinds :
       /\ upRequests[k].pc = "saved"
       /\ upRequests' = [ upRequests EXCEPT ![k].pc = "sent", ![k].status = 200 ]
  /\ UNCHANGED << upObjects, upSlot >>
  /\ UNCHANGED << exVars, vVars, anVars, qsVars, scVars, ciVars, fxVars, rgVars, ulVars, txVars, dbVars, pjVars, mnVars, auVars >>

UserStoreNext ==
  \/ UserFind
  \/ ProfileSave
  \/ CredentialsCompare
  \/ CredentialsRejected
  \/ PasswordHash
  \/ PasswordSave
  \/ LoginSave
  \/ UserRespond

\* C21: a profile update that was answered 200 stays in the stored user, and
\* once every request is answered the stored user has the new name together
\* with the new password hash and lastLogin of the requests answered 200.
C21_NoLostUpdate ==
  (upSlot /= 0 /\ upRequests["profile"].status = 200) =>
    /\ upObjects[upSlot].name = "new name"
    /\ (\A k \in UserRequestKinds : upRequests[k].pc = "sent") =>
         /\ upRequests["password"].status = 200 =>
              upObjects[upSlot].password = Hash("changed")
         /\ upRequests["login"].status = 200 => upObjects[upSlot].lastLogin = "now"

\* ------------------------------------------------------------------------
\* routes/documents.js: POST /upload
\* ------------------------------------------------------------------------
\* an upload as multer hands it over: with req.file, or without; parsed is
\* the success field of the result, unlinks counts the calls of fs.unlink,
\* exists says that the temp file is on disk, warned that a failed deletion
\* was logged
Uploaded(file) ==
  [ file |-> file, pc |-> "received", parsed |-> "none", unlinks |-> 0,
    exists |-> file, warned |-> FALSE, status |-> 0 ]

\* try { await fs.unlink(path) } catch { logger.warn(...) }: the deletion
\* works only on a file that is there, and may fail on one that is
Unlinked(u, works) ==
  [ u EXCEPT !.unlinks = @ + 1,
             !.exists = IF works THEN FALSE ELSE @,
             !.warned = IF works THEN @ ELSE TRUE ]

\* if (!req.file) return res.status(400)
UploadNoFile ==
  /\ \E r \in 1..Len(ulUploads) :
       /\ ulUploads[r].pc = "received"
       /\ ~ulUploads[r].file
       /\ ulUploads' = [ ulUploads EXCEPT ![r].pc = "sent", ![r].status = 400 ]
  /\ UNCHANGED << exVars, vVars, anVars, qsVars, scVars, ciVars, fxVars, rgVars, upVars, txVars, dbVars, pjVars, mnVars, auVars >>

\* const result = await documentParser.parseDocument(req.file.path):
\* parseDocument catches its errors and returns { success: false }
UploadParse ==
  /\ \E r \in 1..Len(ulUploads), result \in { "ok", "failed" } :
       /\ ulUploads[r].pc = "received"
       /\ ulUploads[r].file
       /\ ulUploads' = [ ulUploads EXCEPT ![r].pc = "parsed", ![r].parsed = result ]
  /\ UNCHANGED << exVars, vVars, anVars, qsVars, scVars, ciVars, fxVars, rgVars, upVars, txVars, dbVars, pjVars, mnVars, auVars >>

\* if (!result.success) return res.status(400).json(result)
UploadParseFailed ==
  /\ \E r \in 1..Len(ulUploads) :
       /\ ulUploads[r].pc = "parsed"
       /\ ulUploads[r].parsed = "failed"
       /\ ulUploads' = [ ulUploads EXCEPT ![r].pc = "sent", ![r].status = 400 ]
  /\ UNCHANGED << exVars, vVars, anVars, qsVars, scVars, ciVars, fxVars, rgVars, upVars, txVars, dbVars, pjVars, mnVars, auVars >>

\* "Clean up uploaded file after parsing"
UploadUnlink ==
  /\ \E r \in 1..Len(ulUploads), works \in BOOLEAN :
       /\ ulUploads[r].pc = "parsed"
       /\ ulUploads[r].parsed = "ok"
       /\ works => ulUploads[r].exists
       /\ ulUploads' = [ ulUploads EXCEPT ![r] = [ Unlinked(@, works) EXCEPT !.pc = "cleaned" ] ]
  /\ UNCHANGED << exVars, vVars, anVars, qsVars, scVars, ciVars, fxVars, rgVars, upVars, txVars, dbVars, pjVars, mnVars, auVars >>

\* res.json({ success: true, data: { filename, ...result } })
UploadRespond ==
  /\ \E r \in 1..Len(ulUploads) :
       /\ ulUploads[r].pc = "cleaned"
       /\ ulUploads' = [ ulUploads EXCEPT ![r].pc = "sent", ![r].status = 200 ]
  /\ UNCHANGED << exVars, vVars, anVars, qsVars, scVars, ciVars, fxVars, rgVars, upVars, txVars, dbVars, pjVars, mnVars, auVars >>

\* a statement of the try block throws once the file is received: catch (error)
UploadThrows ==
  /\ \E r \in 1..Len(ulUploads) :
       /\ ulUploads[r].file
       /\ ulUploads[r].pc \in { "received", "cleaned" }
       /\ ulUploads' = [ ulUploads EXCEPT ![r].pc = "caught" ]
  /\ UNCHANGED << exVars, vVars, anVars, qsVars, scVars, ciVars, fxVars, rgVars, upVars, txVars, dbVars, pjVars, mnVars, auVars >>

\* "Clean up file on error"
UploadCleanup ==
  /\ \E r \in 1..Len(ulUploads), works \in BOOLEAN :
       /\ ulUploads[r].pc = "caught"
       /\ works => ulUploads[r].exists
       /\ ulUploads' = [ ulUploads EXCEPT ![r] = [ Unlinked(@, works) EXCEPT !.pc = "cleanup" ] ]
  /\ UNCHANGED << exVars, vVars, anVars, qsVars, scVars, ciVars, fxVars, rgVars, upVars, txVars, dbVars, pjVars, mnVars, auVars >>

\* res.status(500).json({ success: false })
UploadFailed ==
  /\ \E r \in 1..Len(ulUploads) :
       /\ ulUploads[r].pc = "cleanup"
       /\ ulUploads' = [ ulUploads EXCEPT ![r].pc = "sent", ![r].status = 500 ]
  /\ UNCHANGED << exVars, vVars, anVars, qsVars, scVars, ciVars, fxVars, rgVars, upVars, txVars, dbVars, pjVars, mnVars, auVars >>

UploadNext ==
  \/ UploadNoFile
  \/ UploadParse
  \/ UploadParseFailed
  \/ UploadUnlink
  \/ UploadRespond
  \/ UploadThrows
  \/ UploadCleanup
  \/ UploadFailed

\* C22: every answer to an upload that came with a file (200, the 400 of a
\* failed parse, 500) is sent after a deletion of the temp file was
\* attempted, and a failed deletion leaves the answer as it is.
C22_UnlinkBeforeResponse ==
  \A r \in 1..Len(ulUploads) :
    (ulUploads[r].pc = "sent" /\ ulUploads[r].file) =>
      /\ ulUploads[r].unlinks >= 1
      /\ ulUploads[r].status \in { 200, 400, 500 }
      /\ ulUploads[r].status = 400 <=> ulUploads[r].parsed = "failed"

\* ------------------------------------------------------------------------
\* config/database.js: db.transaction
\* ------------------------------------------------------------------------
\* a call of db.transaction: log holds the statements sent and the run of
\* the callback, in order; cause is the error the catch block caught, thrown
\* the error the call ends with, released counts client.release()
Called ==
  [ pc |-> "connect", client |-> FALSE, log |-> <<>>, callbackDone |-> FALSE,
    committed |-> FALSE, cause |-> "", thrown |-> "", released |-> 0, outcome |-> "" ]

\* a catch block that also gives the client back
RolledBackAndReleased(t, ok) ==
  [ t EXCEPT !.log = Append(@, "ROLLBACK"),
             !.thrown = IF ok THEN t.cause ELSE "ROLLBACK",
             !.released = @ + 1,
             !.pc = "finally" ]

\* catch (error) { await client.query('ROLLBACK'); throw error; }: a
\* ROLLBACK that fails throws its own error out of the catch block
RolledBack(t, ok) ==
  [ t EXCEPT !.log = Append(@, "ROLLBACK"),
             !.thrown = IF ok THEN t.cause ELSE "ROLLBACK",
             !.pc = "finally" ]

\* const client = await pool.connect(): outside the try block
TxConnect ==
  \E t \in 1..Len(txCalls), ok \in BOOLEAN :
    /\ txCalls[t].pc = "connect"
    /\ txCalls' = [ txCalls EXCEPT ![t] =
                      IF ok THEN [ @ EXCEPT !.client = TRUE, !.pc = "begin" ]
                      ELSE [ @ EXCEPT !.thrown = "connect", !.outcome = "thrown",
                                      !.pc = "done" ] ]
    /\ UNCHANGED << exVars, vVars, anVars, qsVars, scVars, ciVars, fxVars, rgVars, upVars, ulVars, dbVars, pjVars, mnVars, auVars >>

\* await client.query('BEGIN')
TxBegin ==
  \E t \in 1..Len(txCalls), ok \in BOOLEAN :
    /\ txCalls[t].pc = "begin"
    /\ txCalls' = [ txCalls EXCEPT ![t] =
                      IF ok THEN [ @ EXCEPT !.log = Append(@, "BEGIN"), !.pc = "callback" ]
                      ELSE [ @ EXCEPT !.log = Append(@, "BEGIN"), !.cause = "BEGIN",
                                      !.pc = "catch" ] ]
    /\ UNCHANGED << exVars, vVars, anVars, qsVars, scVars, ciVars, fxVars, rgVars, upVars, ulVars, dbVars, pjVars, mnVars, auVars >>

\* const result = await callback(client)
TxCallback ==
  \E t \in 1..Len(txCalls), ok \in BOOLEAN :
    /\ txCalls[t].pc = "callback"
    /\ txCalls' = [ txCalls EXCEPT ![t] =
                      IF ok THEN [ @ EXCEPT !.log = Append(@, "callback"),
                                            !.callbackDone = TRUE, !.pc = "commit" ]
                      ELSE [ @ EXCEPT !.log = Append(@, "callback"), !.cause = "callback",
                                      !.pc = "catch" ] ]
    /\ UNCHANGED << exVars, vVars, anVars, qsVars, scVars, ciVars, fxVars, rgVars, upVars, ulVars, dbVars, pjVars, mnVars, auVars >>

\* await client.query('COMMIT'); return result
TxCommit ==
  \E t \in 1..Len(txCalls), ok \in BOOLEAN :
    /\ txCalls[t].pc = "commit"
    /\ txCalls' = [ txCalls EXCEPT ![t] =
                      IF ok THEN [ @ EXCEPT !.log = Append(@, "COMMIT"),
                                            !.committed = TRUE, !.pc = "finally" ]
                      ELSE [ @ EXCEPT !.log = Append(@, "COMMIT"), !.cause = "COMMIT",
                                      !.pc = "catch" ] ]
    /\ UNCHANGED << exVars, vVars, anVars, qsVars, scVars, ciVars, fxVars, rgVars, upVars, ulVars, dbVars, pjVars, mnVars, auVars >>

\* the catch block
TxRollback ==
  \E t \in 1..Len(txCalls), ok \in BOOLEAN :
    /\ txCalls[t].pc = "catch"
    /\ txCalls' = [ txCalls EXCEPT ![t] = RolledBack(@, ok) ]
    /\ UNCHANGED << exVars, vVars, anVars, qsVars, scVars, ciVars, fxVars, rgVars, upVars, ulVars, dbVars, pjVars, mnVars, auVars >>

\* finally { client.release(); }: then the value is returned or the error
\* thrown
TxRelease ==
  \E t \in 1..Len(txCalls) :
    /\ txCalls[t].pc = "finally"
    /\ txCalls' = [ txCalls EXCEPT ![t].released = @ + 1,
                                   ![t].outcome = IF txCalls[t].thrown = ""
                                                  THEN "returned" ELSE "thrown",
                                   ![t].pc = "done" ]
    /\ UNCHANGED << exVars, vVars, anVars, qsVars, scVars, ciVars, fxVars, rgVars, upVars, ulVars, dbVars, pjVars, mnVars, auVars >>

TransactionNext ==
  \/ TxConnect
  \/ TxBegin
  \/ TxCallback
  \/ TxCommit
  \/ TxRollback
  \/ TxRelease

\* what C23 says of a finished call but for the error thrown: BEGIN comes
\* first, COMMIT is sent exactly when the callback completed, a call that
\* did not commit ends with ROLLBACK and throws, a committed one sends no
\* ROLLBACK and returns, the client is released once
TransactionProtocol(t) ==
  /\ t.log /= <<>> /\ t.log[1] = "BEGIN"
  /\ \A i \in 2..Len(t.log) : t.log[i] /= "BEGIN"
  /\ (\E i \in 1..Len(t.log) : t.log[i] = "COMMIT") <=> t.callbackDone
  /\ t.committed => /\ \A i \in 1..Len(t.log) : t.log[i] /= "ROLLBACK"
                    /\ t.log[Len(t.log)] = "COMMIT"
                    /\ t.outcome = "returned"
  /\ ~t.committed => /\ t.log[Len(t.log)] = "ROLLBACK"
                     /\ Cardinality({ i \in 1..Len(t.log) : t.log[i] = "ROLLBACK" }) = 1
                     /\ t.outcome = "thrown"
  /\ t.released = 1

\* C23 as stated: the protocol, and the error thrown to the caller is the
\* failure that led to the ROLLBACK.
C23_RethrowsTheFailure ==
  \A t \in 1..Len(txCalls) :
    (txCalls[t].pc = "done" /\ txCalls[t].client) =>
      /\ TransactionProtocol(txCalls[t])
      /\ ~txCalls[t].committed => txCalls[t].thrown = txCalls[t].cause

\* C23 amended: the protocol, and the error thrown to the caller is the
\* failure that led to the ROLLBACK when the ROLLBACK worked, the error of
\* the ROLLBACK when it failed; before the end the client is not released.
C23_TransactionProtocol ==
  \A t \in 1..Len(txCalls) :
    /\ (txCalls[t].pc = "done" /\ txCalls[t].client) =>
         /\ TransactionProtocol(txCalls[t])
         /\ ~txCalls[t].committed => txCalls[t].thrown \in { txCalls[t].cause, "ROLLBACK" }
    /\ txCalls[t].pc /= "done" => txCalls[t].released = 0

\* a COMMIT that failed, then a ROLLBACK that failed: released once, the
\* error of the ROLLBACK thrown
C23_Witness ==
  \E t \in 1..Len(txCalls) :
    /\ txCalls[t].pc = "done"
    /\ txCalls[t].log = << "BEGIN", "callback", "COMMIT", "ROLLBACK" >>
    /\ txCalls[t].cause = "COMMIT"
    /\ txCalls[t].thrown = "ROLLBACK"
    /\ txCalls[t].released = 1

\* ------------------------------------------------------------------------
\* config/database.js: testConnection and initializeDatabase
\* ------------------------------------------------------------------------
StartupFunctions == { "testConnection", "initializeDatabase" }

\* the client.query calls of the function, in a row
QueriesOf(f) == IF f = "testConnection" THEN 1 ELSE 8

\* a call that has entered its try block
Entered ==
  [ pc |-> "connect", client |-> FALSE, queried |-> 0, released |-> 0, outcome |-> "" ]

\* const client = await pool.connect()
DbConnect ==
  \E f \in StartupFunctions, ok \in BOOLEAN :
    /\ dbCalls[f].pc = "connect"
    /\ dbCalls' = [ dbCalls EXCEPT ![f] =
                      IF ok THEN [ @ EXCEPT !.client = TRUE, !.pc = "query" ]
                      ELSE [ @ EXCEPT !.pc = "caught" ] ]
    /\ dbInUse' = IF ok THEN dbInUse + 1 ELSE dbInUse
    /\ UNCHANGED << exVars, vVars, anVars, qsVars, scVars, ciVars, fxVars, rgVars, upVars, ulVars, txVars, pjVars, mnVars, auVars >>

\* await client.query(...): the next statement of the function
DbQuery ==
  \E f \in StartupFunctions, ok \in BOOLEAN :
    /\ dbCalls[f].pc = "query"
    /\ dbCalls' = [ dbCalls EXCEPT ![f] =
                      IF ok
                      THEN [ @ EXCEPT !.queried = @ + 1,
                                      !.pc = IF dbCalls[f].queried + 1 = QueriesOf(f)
                                             THEN "release" ELSE "query" ]
                      ELSE [ @ EXCEPT !.pc = "caught" ] ]
    /\ UNCHANGED dbInUse
    /\ UNCHANGED << exVars, vVars, anVars, qsVars, scVars, ciVars, fxVars, rgVars, upVars, ulVars, txVars, pjVars, mnVars, auVars >>

\* client.release(); return true
DbRelease ==
  \E f \in StartupFunctions :
    /\ dbCalls[f].pc = "release"
    /\ dbCalls' = [ dbCalls EXCEPT ![f].released = @ + 1, ![f].outcome = "true",
                                   ![f].pc = "done" ]
    /\ dbInUse' = dbInUse - 1
    /\ UNCHANGED << exVars, vVars, anVars, qsVars, scVars, ciVars, fxVars, rgVars, upVars, ulVars, txVars, pjVars, mnVars, auVars >>

\* catch (error) { logger.error(...); return false; }
DbCaught ==
  \E f \in StartupFunctions :
    /\ dbCalls[f].pc = "caught"
    /\ dbCalls' = [ dbCalls EXCEPT ![f].outcome = "false", ![f].pc = "done" ]
    /\ UNCHANGED dbInUse
    /\ UNCHANGED << exVars, vVars, anVars, qsVars, scVars, ciVars, fxVars, rgVars, upVars, ulVars, txVars, pjVars, mnVars, auVars >>

StartupNext ==
  \/ DbConnect
  \/ DbQuery
  \/ DbRelease
  \/ DbCaught

\* C24: a call that has returned has released the client it got from the
\* pool, a failed query or not, and has returned true or false; with both
\* calls over no client is checked out.
C24_ClientsReturned ==
  /\ \A f \in StartupFunctions :
       dbCalls[f].pc = "done" =>
         /\ dbCalls[f].outcome \in { "true", "false" }
         /\ dbCalls[f].client => dbCalls[f].released = 1
  /\ (\A f \in StartupFunctions : dbCalls[f].pc = "done") => dbInUse = 0

\* ------------------------------------------------------------------------
\* The projects routes: PUT /:id, POST /:id/collaborators and
\* DELETE /:id/collaborators/:collaboratorId on one stored project
\* ------------------------------------------------------------------------
\* req.user as the token gives it
ProjectUsers ==
  { [ userId |-> "u1", role |-> "pm" ], [ userId |-> "u3", role |-> "pm" ],
    [ userId |-> "u9", role |-> "admin" ] }

\* the project POST / has stored: owned by u1; team is the place of its
\* teamMembers array in pjArrays
StoredProject ==
  [ id |-> "project_1", ownerId |-> "u1", createdAt |-> "created", prdCount |-> 0,
    name |-> "old name", description |-> "about", status |-> "completed",
    visibility |-> "team", tags |-> << "tag" >>, team |-> 1, updatedAt |-> "created" ]

\* an entry of teamMembers: a string, as projectSchema wants it, or the
\* object the collaborators route pushes
StringMember(u) == [ userId |-> u, object |-> FALSE ]

ObjectMember(u) == [ userId |-> u, object |-> TRUE ]

\* member.userId: undefined on a string
MemberUserId(m) == IF m.object THEN m.userId ELSE "undefined"

\* the bodies of PUT /:id: name, and perhaps status, and perhaps teamMembers
UpdateBodies ==
  { [ name |-> "new name", status |-> st, hasTeam |-> ht,
      team |-> IF ht THEN << "u2" >> ELSE <<>>, collaborator |-> "" ] :
      st \in { "", "archived" }, ht \in BOOLEAN }

\* the body of POST /:id/collaborators: userId; the collaboratorId of DELETE
CollaboratorBody ==
  [ name |-> "", status |-> "", hasTeam |-> FALSE, team |-> <<>>, collaborator |-> "u2" ]

ProjectRequest(kind, user, body) ==
  [ kind |-> kind, user |-> user, body |-> body, pc |-> "received", project |-> 0,
    status |-> 0, error |-> "" ]

ProjectRequests ==
  { ProjectRequest("update", u, b) : u \in ProjectUsers, b \in UpdateBodies }
  \cup { ProjectRequest(k, u, CollaboratorBody) :
           k \in { "add", "remove" }, u \in ProjectUsers }

\* boolean === string: false, whatever the two are
BooleanIsString(b, str) == FALSE

\* project.ownerId !== userId && !req.user.role === 'admin': the negation
\* is taken first and gives a boolean, which is never the string 'admin'
UpdateDenied(project, user) ==
  project.ownerId /= user.userId /\ BooleanIsString(user.role = "", "admin")

\* project.ownerId !== userId && req.user.role !== 'admin'
CollaboratorsDenied(project, user) ==
  project.ownerId /= user.userId /\ user.role /= "admin"

\* the value of projectSchema.validate: the defaults 'draft' and 'private'
\* stand in for a status and a visibility the body does not have
ValidatedStatus(body) == IF body.status = "" THEN "draft" ELSE body.status

ValidatedVisibility(body) == "private"

\* const project = await getProjectById(id): a reference to the stored object
ProjectFind ==
  \E r \in 1..Len(pjRequests) :
    /\ pjRequests[r].pc = "received"
    /\ pjRequests' = [ pjRequests EXCEPT ![r].pc = "found", ![r].project = pjSlot ]
    /\ UNCHANGED << pjObjects, pjArrays, pjSlot >>
    /\ UNCHANGED << exVars, vVars, anVars, qsVars, scVars, ciVars, fxVars, rgVars, upVars, ulVars, txVars, dbVars, mnVars, auVars >>

\* PUT /:id from the permission check on: updatedProject = { ...project,
\* ...value, updatedAt } is a new object; saveProject puts it into projects
ProjectUpdate ==
  \E r \in 1..Len(pjRequests) :
    LET q == pjRequests[r]
        project == pjObjects[q.project]
    IN  /\ q.pc = "found"
        /\ q.kind = "update"
        /\ IF UpdateDenied(project, q.user)
           THEN /\ pjRequests' = [ pjRequests EXCEPT ![r].pc = "sent", ![r].status = 403,
                                                     ![r].error = "Permission denied" ]
                /\ UNCHANGED << pjObjects, pjArrays, pjSlot >>
           ELSE /\ pjArrays' = IF q.body.hasTeam
                               THEN Append(pjArrays, [ i \in 1..Len(q.body.team) |->
                                                         StringMember(q.body.team[i]) ])
                               ELSE pjArrays
                /\ pjObjects' = Append(pjObjects,
                     [ project EXCEPT !.name = q.body.name,
                                      !.status = ValidatedStatus(q.body),
                                      !.visibility = ValidatedVisibility(q.body),
                                      !.team = IF q.body.hasTeam THEN Len(pjArrays) + 1 ELSE @,
                                      !.updatedAt = "updated" ])
                /\ pjSlot' = Len(pjObjects) + 1
                /\ pjRequests' = [ pjRequests EXCEPT ![r].pc = "saved" ]
    /\ UNCHANGED << exVars, vVars, anVars, qsVars, scVars, ciVars, fxVars, rgVars, upVars, ulVars, txVars, dbVars, mnVars, auVars >>

\* POST /:id/collaborators from the permission check on: the entry is pushed
\* onto the array of the object found, which saveProject puts into projects
ProjectAdd ==
  \E r \in 1..Len(pjRequests) :
    LET q == pjRequests[r]
        project == pjObjects[q.project]
        members == pjArrays[project.team]
    IN  /\ q.pc = "found"
        /\ q.kind = "add"
        /\ IF CollaboratorsDenied(project, q.user)
           THEN /\ pjRequests' = [ pjRequests EXCEPT ![r].pc = "sent", ![r].status = 403,
                                                     ![r].error = "Permission denied" ]
                /\ UNCHANGED << pjObjects, pjArrays, pjSlot >>
           ELSE IF \E i \in 1..Len(members) : MemberUserId(members[i]) = q.body.collaborator
           THEN /\ pjRequests' = [ pjRequests EXCEPT
                                     ![r].pc = "sent", ![r].status = 400,
                                     ![r].error = "User is already a collaborator" ]
                /\ UNCHANGED << pjObjects, pjArrays, pjSlot >>
           ELSE /\ pjArrays' = [ pjArrays EXCEPT ![project.team] =
                                   Append(@, ObjectMember(q.body.collaborator)) ]
                /\ pjObjects' = [ pjObjects EXCEPT ![q.project].updatedAt = "updated" ]
                /\ pjSlot' = q.project
                /\ pjRequests' = [ pjRequests EXCEPT ![r].pc = "saved" ]
    /\ UNCHANGED << exVars, vVars, anVars, qsVars, scVars, ciVars, fxVars, rgVars, upVars, ulVars, txVars, dbVars, mnVars, auVars >>

\* DELETE /:id/collaborators/:collaboratorId from the permission check on:
\* project.teamMembers = project.teamMembers.filter(...), a new array
ProjectRemove ==
  \E r \in 1..Len(pjRequests) :
    LET q == pjRequests[r]
        project == pjObjects[q.project]
        members == pjArrays[project.team]
    IN  /\ q.pc = "found"
        /\ q.kind = "remove"
        /\ IF CollaboratorsDenied(project, q.user)
           THEN /\ pjRequests' = [ pjRequests EXCEPT ![r].pc = "sent", ![r].status = 403,
                                                     ![r].error = "Permission denied" ]
                /\ UNCHANGED << pjObjects, pjArrays, pjSlot >>
           ELSE /\ pjArrays' = Append(pjArrays,
                     SelectSeq(members, LAMBDA m : MemberUserId(m) /= q.body.collaborator))
                /\ pjObjects' = [ pjObjects EXCEPT ![q.project].team = Len(pjArrays) + 1,
                                                   ![q.project].updatedAt = "updated" ]
                /\ pjSlot' = q.project
                /\ pjRequests' = [ pjRequests EXCEPT ![r].pc = "saved" ]
    /\ UNCHANGED << exVars, vVars, anVars, qsVars, scVars, ciVars, fxVars, rgVars, upVars, ulVars, txVars, dbVars, mnVars, auVars >>

\* res.json({ success: true, data: project })
ProjectRespond ==
  \E r \in 1..Len(pjRequests) :
    /\ pjRequests[r].pc = "saved"
    /\ pjRequests' = [ pjRequests EXCEPT ![r].pc = "sent", ![r].status = 200 ]
    /\ UNCHANGED << pjObjects, pjArrays, pjSlot >>
    /\ UNCHANGED << exVars, vVars, anVars, qsVars, scVars, ciVars, fxVars, rgVars, upVars, ulVars, txVars, dbVars, mnVars, auVars >>

ProjectNext ==
  \/ ProjectFind
  \/ ProjectUpdate
  \/ ProjectAdd
  \/ ProjectRemove
  \/ ProjectRespond

\* the project the array projects holds, its teamMembers in place of team
Stored(objects, arrays, slot) ==
  [ project |-> objects[slot], teamMembers |-> arrays[objects[slot].team] ]

\* request r takes the step of PUT /:id that follows the lookup
UpdateStep(r) ==
  /\ pjRequests[r].kind = "update"
  /\ pjRequests[r].pc = "found"
  /\ pjRequests'[r].pc /= "found"

\* C25: a PUT /:id changes the stored project only for the owner and for an
\* admin; any other user is answered 403 'Permission denied' and the stored
\* project stays as it is.
C25_UpdateNeedsOwnerOrAdmin ==
  [][ \A r \in 1..Len(pjRequests) :
        UpdateStep(r) =>
          IF pjRequests[r].user.userId = "u1" \/ pjRequests[r].user.role = "admin"
          THEN pjRequests'[r].pc = "saved"
          ELSE /\ pjRequests'[r].status = 403
               /\ pjRequests'[r].error = "Permission denied"
               /\ Stored(pjObjects', pjArrays', pjSlot') = Stored(pjObjects, pjArrays, pjSlot)
    ]_vars

\* C26: a PUT /:id that is carried out leaves id, ownerId, createdAt and
\* prdCount as stored, and status, visibility, description, tags and
\* teamMembers too unless the body has them.
C26_UpdateFrame ==
  [][ \A r \in 1..Len(pjRequests) :
        (UpdateStep(r) /\ pjRequests'[r].pc = "saved") =>
          LET old == Stored(pjObjects, pjArrays, pjRequests[r].project)
              new == Stored(pjObjects', pjArrays', pjSlot')
              body == pjRequests[r].body
          IN  /\ new.project.id = old.project.id
              /\ new.project.ownerId = old.project.ownerId
              /\ new.project.createdAt = old.project.createdAt
              /\ new.project.prdCount = old.project.prdCount
              /\ new.project.description = old.project.description
              /\ new.project.tags = old.project.tags
              /\ new.project.visibility = old.project.visibility
              /\ body.status = "" => new.project.status = old.project.status
              /\ ~body.hasTeam => new.teamMembers = old.teamMembers
    ]_vars

\* C27: no user id is twice among the team members of the stored project;
\* an add that is answered 200 found no entry of the user.
C27_CollaboratorsUnique ==
  pjSlot /= 0 =>
    LET members == Stored(pjObjects, pjArrays, pjSlot).teamMembers
    IN  \A i, j \in 1..Len(members) : members[i].userId = members[j].userId => i = j

\* ------------------------------------------------------------------------
\* routes/competitive.js: POST /monitor
\* ------------------------------------------------------------------------
\* competitors.slice(0, 10)
monitorLimit == 10

NoMonitoring ==
  [ status |-> 0, competitors |-> <<>>,
    summary |-> [ totalCompetitors |-> 0, successfullyMonitored |-> 0, status |-> "" ] ]

\* the promise of getCompetitorMonitoring: it returns its data, or its catch
\* block returns null; failed records that the catch block ran
Monitored(name, works) ==
  [ status |-> "fulfilled", value |-> IF works THEN << "data", name >> ELSE << null >>,
    failed |-> ~works ]

\* generateMonitoringSummary
generateMonitoringSummary(monitoringResults) ==
  LET successful == Cardinality({ i \in 1..Len(monitoringResults) :
                                    monitoringResults[i].status = "fulfilled" })
      total == Len(monitoringResults)
  IN  [ totalCompetitors |-> total, successfullyMonitored |-> successful,
        status |-> IF successful = total THEN "Complete" ELSE "Partial" ]

\* if (!competitors || !Array.isArray(competitors) || competitors.length === 0)
MonitorRejected ==
  /\ mnPc = "request"
  /\ Len(mnCompetitors) = 0
  /\ mnResponse' = [ NoMonitoring EXCEPT !.status = 400 ]
  /\ mnPc' = "sent"
  /\ UNCHANGED << mnCompetitors, mnResults >>
  /\ UNCHANGED << exVars, vVars, anVars, qsVars, scVars, ciVars, fxVars, rgVars, upVars, ulVars, txVars, dbVars, pjVars, auVars >>

\* competitors.slice(0, 10).map(competitor => getCompetitorMonitoring(competitor)):
\* the call for the next of the first ten
MonitorLookup ==
  /\ mnPc = "request"
  /\ Len(mnCompetitors) > 0
  /\ Len(mnResults) < Len(mnCompetitors)
  /\ Len(mnResults) < monitorLimit
  /\ \E works \in BOOLEAN :
       mnResults' = Append(mnResults, Monitored(mnCompetitors[Len(mnResults) + 1], works))
  /\ UNCHANGED << mnCompetitors, mnResponse, mnPc >>
  /\ UNCHANGED << exVars, vVars, anVars, qsVars, scVars, ciVars, fxVars, rgVars, upVars, ulVars, txVars, dbVars, pjVars, auVars >>

\* await Promise.allSettled; competitors.map((competitor, index) => ...
\* monitoringResults[index].status ...): past the tenth there is no result,
\* the TypeError is caught and 500 is sent
MonitorJoined ==
  /\ mnPc = "request"
  /\ Len(mnCompetitors) > 0
  /\ Len(mnResults) = Len(mnCompetitors) \/ Len(mnResults) = monitorLimit
  /\ mnResponse' =
       IF Len(mnCompetitors) > Len(mnResults)
       THEN [ NoMonitoring EXCEPT !.status = 500 ]
       ELSE [ status |-> 200,
              competitors |-> [ i \in 1..Len(mnCompetitors) |->
                                  [ name |-> mnCompetitors[i],
                                    data |-> IF mnResults[i].status = "fulfilled"
                                             THEN mnResults[i].value ELSE << null >> ] ],
              summary |-> generateMonitoringSummary(mnResults) ]
  /\ mnPc' = "sent"
  /\ UNCHANGED << mnCompetitors, mnResults >>
  /\ UNCHANGED << exVars, vVars, anVars, qsVars, scVars, ciVars, fxVars, rgVars, upVars, ulVars, txVars, dbVars, pjVars, auVars >>

MonitorNext == MonitorRejected \/ MonitorLookup \/ MonitorJoined

\* C28: a competitors array that is not empty is answered with success and
\* one entry for each competitor, its data or null when its lookup failed;
\* ten lookups at most are made; successfullyMonitored <= totalCompetitors,
\* and the status is 'Complete' exactly when every lookup succeeded.
C28_MonitorEveryCompetitor ==
  /\ Len(mnResults) <= monitorLimit
  /\ (mnPc = "sent" /\ Len(mnCompetitors) > 0) =>
       /\ mnResponse.status = 200
       /\ Len(mnResponse.competitors) = Len(mnCompetitors)
       /\ \A i \in 1..Len(mnResponse.competitors) :
            /\ mnResponse.competitors[i].name = mnCompetitors[i]
            /\ mnResponse.competitors[i].data = << null >> <=> mnResults[i].failed
       /\ mnResponse.summary.successfullyMonitored <= mnResponse.summary.totalCompetitors
       /\ mnResponse.summary.status = "Complete"
            <=> \A i \in 1..Len(mnResults) : ~mnResults[i].failed

\* ------------------------------------------------------------------------
\* middleware/auth.js: authMiddleware and requireRole in front of a handler
\* ------------------------------------------------------------------------
\* req.user: undefined, or the payload of the token
NoUser == [ set |-> FALSE, userId |-> "", role |-> "" ]

Payload(userId, role) == [ set |-> TRUE, userId |-> userId, role |-> role ]

NoAnswer == [ status |-> 0, error |-> "" ]

\* the Authorization header: absent, or the prefix 'Bearer ' or none and
\* then a token, which may be the empty string
Tokens == { "", "pm token", "admin token", "token without role", "forged", "expired" }

Headers ==
  { [ present |-> FALSE, bearer |-> FALSE, rest |-> "" ] }
  \cup { [ present |-> TRUE, bearer |-> b, rest |-> t ] : b \in BOOLEAN, t \in Tokens }

\* the lists requireRole is made with
RoleLists == { { "admin" }, { "vp" }, { "pm", "vp", "admin" } }

\* a request and the chain in front of its handler: authMiddleware or not,
\* then requireRole(roles)
NoRequest ==
  [ header |-> [ present |-> FALSE, bearer |-> FALSE, rest |-> "" ], auth |-> FALSE,
    roles |-> {} ]

\* req.header('Authorization')?.replace('Bearer ', ''): what is left of the
\* header without the prefix; undefined and '' are both falsy
TokenOf(header) == IF header.present THEN header.rest ELSE ""

\* jwt.verify returns the payload of a token signed with the secret and not
\* expired, and throws on any other
Verifies(token) == token \in { "pm token", "admin token", "token without role" }

Decoded(token) ==
  CASE token = "pm token" -> Payload("u1", "pm")
    [] token = "admin token" -> Payload("u9", "admin")
    [] token = "token without role" -> Payload("u5", "")

\* optionalAuth: next is called whatever the token is
optionalAuth(header) ==
  LET token == TokenOf(header)
  IN  IF token /= "" /\ Verifies(token)
      THEN [ next |-> TRUE, user |-> Decoded(token), answer |-> NoAnswer ]
      ELSE [ next |-> TRUE, user |-> NoUser, answer |-> NoAnswer ]

\* authMiddleware: what it does to req.user, whether it calls next, what it
\* answers
authMiddleware(header) ==
  LET token == TokenOf(header)
  IN  IF token = ""
      THEN [ next |-> FALSE, user |-> NoUser,
             answer |-> [ status |-> 401, error |-> "Access token required" ] ]
      ELSE IF Verifies(token)
      THEN [ next |-> TRUE, user |-> Decoded(token), answer |-> NoAnswer ]
      ELSE [ next |-> FALSE, user |-> NoUser,
             answer |-> [ status |-> 401, error |-> "Invalid token" ] ]

\* a requireRole that lets a user without a role through
requireRoleIfAny(roles, user) ==
  IF ~user.set
  THEN [ next |-> FALSE, answer |-> [ status |-> 401, error |-> "Authentication required" ] ]
  ELSE IF user.role /= "" /\ user.role \notin roles
  THEN [ next |-> FALSE, answer |-> [ status |-> 403, error |-> "Insufficient permissions" ] ]
  ELSE [ next |-> TRUE, answer |-> NoAnswer ]

\* requireRole(roles)
requireRole(roles, user) ==
  IF ~user.set
  THEN [ next |-> FALSE, answer |-> [ status |-> 401, error |-> "Authentication required" ] ]
  ELSE IF user.role \notin roles
  THEN [ next |-> FALSE, answer |-> [ status |-> 403, error |-> "Insufficient permissions" ] ]
  ELSE [ next |-> TRUE, answer |-> NoAnswer ]

\* the request goes through authMiddleware
AuthRuns ==
  /\ auPc = "auth"
  /\ LET done == authMiddleware(auRequest.header)
     IN  /\ auUser' = done.user
         /\ auNext' = IF done.next THEN auNext + 1 ELSE auNext
         /\ auResponse' = done.answer
         /\ auPc' = IF done.next THEN "role" ELSE "sent"
  /\ UNCHANGED << auRequest, auHandler >>
  /\ UNCHANGED << exVars, vVars, anVars, qsVars, scVars, ciVars, fxVars, rgVars, upVars, ulVars, txVars, dbVars, pjVars, mnVars >>

\* the request goes through requireRole(roles)
RoleRuns ==
  /\ auPc = "role"
  /\ LET done == requireRole(auRequest.roles, auUser)
     IN  /\ auResponse' = done.answer
         /\ auPc' = IF done.next THEN "handler" ELSE "sent"
  /\ UNCHANGED << auRequest, auUser, auNext, auHandler >>
  /\ UNCHANGED << exVars, vVars, anVars, qsVars, scVars, ciVars, fxVars, rgVars, upVars, ulVars, txVars, dbVars, pjVars, mnVars >>

\* the route handler is invoked and answers
HandlerRuns ==
  /\ auPc = "handler"
  /\ auHandler' = TRUE
  /\ auResponse' = [ status |-> 200, error |-> "" ]
  /\ auPc' = "sent"
  /\ UNCHANGED << auRequest, auUser, auNext >>
  /\ UNCHANGED << exVars, vVars, anVars, qsVars, scVars, ciVars, fxVars, rgVars, upVars, ulVars, txVars, dbVars, pjVars, mnVars >>

AuthNext == AuthRuns \/ RoleRuns \/ HandlerRuns

\* the header carries a token that verifies
CarriesValidToken ==
  /\ auRequest.header.present
  /\ auRequest.header.rest \in { "pm token", "admin token", "token without role" }

\* C29: authMiddleware calls next only for a header with a token that
\* verifies, and req.user is then the payload; a missing or invalid token is
\* answered 401 and the handler is not invoked; exactly one of next and 401
\* happens. requireRole answers 401 without a user and 403 unless the role
\* of the user is in the list.
C29_AuthenticationGate ==
  /\ auNext \in 0..1
  /\ auNext = 1 => /\ CarriesValidToken
                   /\ auUser = Decoded(auRequest.header.rest)
  /\ (auRequest.auth /\ auPc \notin { "idle", "auth" }) =>
       /\ auNext = 1 <=> CarriesValidToken
       /\ auNext = 0 => /\ auResponse.status = 401
                        /\ auPc = "sent"
                        /\ ~auHandler
  /\ auHandler => /\ auUser.set
                  /\ auUser.role \in auRequest.roles
                  /\ auRequest.auth => auNext = 1
  /\ (auPc = "sent" /\ ~auHandler /\ (auNext = 1 \/ ~auRequest.auth)) =>
       IF ~auUser.set THEN auResponse.status = 401
       ELSE auResponse.status = 403 /\ auUser.role \notin auRequest.roles

\* a verified token without a role is stopped by requireRole with 403
C29_Witness ==
  /\ auPc = "sent"
  /\ auRequest.auth
  /\ auNext = 1
  /\ auUser = Payload("u5", "")
  /\ auResponse = [ status |-> 403, error |-> "Insufficient permissions" ]
  /\ ~auHandler

\* ------------------------------------------------------------------------
\* Specifications
\* ------------------------------------------------------------------------
\* Each specification starts one operation; the variables of the other
\* operations hold the values of a route that serves no request.

\* extractStructuredData is entered with the posted content
ExtractInit ==
  /\ exContent \in Contents
  /\ exLines = Split(exContent)
  /\ exI = 1
  /\ exLoop = LoopStart
  /\ exSections = <<>>
  /\ exPc = "scan"
  /\ exPass = 1
  /\ exFirst = <<>>
  /\ vStructuredData = [ given |-> FALSE, sections |-> <<>> ]
  /\ vContent = NoText /\ vResponse = NoResponse /\ vPc = "idle"
  /\ anHasData = FALSE /\ anType = "comprehensive" /\ anInclude = FALSE
  /\ anTasks = <<>> /\ anResponse = NoAnalysis /\ anPc = "idle"
  /\ qsPrdData = NoPrdData /\ qsScore = 0 /\ qsResponse = NoQuickScore /\ qsPc = "idle"
  /\ scContent = NoText /\ scScore = 0 /\ scPc = "idle"
  /\ ciPrdData = "strings" /\ ciTasks = <<>> /\ ciResult = NoIntelligence /\ ciPc = "idle"
  /\ fxContent = <<>> /\ fxMetrics = <<>> /\ fxStakeholders = <<>>
  /\ fxFeatures = <<>> /\ fxRisks = <<>> /\ fxPc = "idle"
  /\ rgRequests = <<>> /\ rgUsers = <<>> /\ rgCounter = 1
  /\ upObjects = <<>> /\ upSlot = 0 /\ upRequests = <<>>
  /\ ulUploads = <<>>
  /\ txCalls = <<>>
  /\ dbCalls = <<>> /\ dbInUse = 0
  /\ pjObjects = <<>> /\ pjArrays = <<>> /\ pjSlot = 0 /\ pjRequests = <<>>
  /\ mnCompetitors = <<>> /\ mnResults = <<>> /\ mnResponse = NoMonitoring /\ mnPc = "idle"
  /\ auRequest = NoRequest /\ auUser = NoUser /\ auNext = 0
  /\ auResponse = NoAnswer /\ auHandler = FALSE /\ auPc = "idle"

\* POST /validate-structure arrives
ValidateInit ==
  /\ vStructuredData \in PostedStructuredData
  /\ vContent \in PostedContents
  /\ vResponse = NoResponse
  /\ vPc = "request"
  /\ exContent = <<>> /\ exLines = <<>> /\ exI = 0 /\ exLoop = LoopStart
  /\ exSections = <<>> /\ exPc = "idle" /\ exPass = 0 /\ exFirst = <<>>
  /\ anHasData = FALSE /\ anType = "comprehensive" /\ anInclude = FALSE
  /\ anTasks = <<>> /\ anResponse = NoAnalysis /\ anPc = "idle"
  /\ qsPrdData = NoPrdData /\ qsScore = 0 /\ qsResponse = NoQuickScore /\ qsPc = "idle"
  /\ scContent = NoText /\ scScore = 0 /\ scPc = "idle"
  /\ ciPrdData = "strings" /\ ciTasks = <<>> /\ ciResult = NoIntelligence /\ ciPc = "idle"
  /\ fxContent = <<>> /\ fxMetrics = <<>> /\ fxStakeholders = <<>>
  /\ fxFeatures = <<>> /\ fxRisks = <<>> /\ fxPc = "idle"
  /\ rgRequests = <<>> /\ rgUsers = <<>> /\ rgCounter = 1
  /\ upObjects = <<>> /\ upSlot = 0 /\ upRequests = <<>>
  /\ ulUploads = <<>>
  /\ txCalls = <<>>
  /\ dbCalls = <<>> /\ dbInUse = 0
  /\ pjObjects = <<>> /\ pjArrays = <<>> /\ pjSlot = 0 /\ pjRequests = <<>>
  /\ mnCompetitors = <<>> /\ mnResults = <<>> /\ mnResponse = NoMonitoring /\ mnPc = "idle"
  /\ auRequest = NoRequest /\ auUser = NoUser /\ auNext = 0
  /\ auResponse = NoAnswer /\ auHandler = FALSE /\ auPc = "idle"

\* POST /analyze arrives
AnalyzeInit ==
  /\ anHasData \in BOOLEAN
  /\ anType \in AnalysisTypes
  /\ anInclude \in BOOLEAN
  /\ anTasks = <<>>
  /\ anResponse = NoAnalysis
  /\ anPc = "request"
  /\ exContent = <<>> /\ exLines = <<>> /\ exI = 0 /\ exLoop = LoopStart
  /\ exSections = <<>> /\ exPc = "idle" /\ exPass = 0 /\ exFirst = <<>>
  /\ vStructuredData = [ given |-> FALSE, sections |-> <<>> ]
  /\ vContent = NoText /\ vResponse = NoResponse /\ vPc = "idle"
  /\ qsPrdData = NoPrdData /\ qsScore = 0 /\ qsResponse = NoQuickScore /\ qsPc = "idle"
  /\ scContent = NoText /\ scScore = 0 /\ scPc = "idle"
  /\ ciPrdData = "strings" /\ ciTasks = <<>> /\ ciResult = NoIntelligence /\ ciPc = "idle"
  /\ fxContent = <<>> /\ fxMetrics = <<>> /\ fxStakeholders = <<>>
  /\ fxFeatures = <<>> /\ fxRisks = <<>> /\ fxPc = "idle"
  /\ rgRequests = <<>> /\ rgUsers = <<>> /\ rgCounter = 1
  /\ upObjects = <<>> /\ upSlot = 0 /\ upRequests = <<>>
  /\ ulUploads = <<>>
  /\ txCalls = <<>>
  /\ dbCalls = <<>> /\ dbInUse = 0
  /\ pjObjects = <<>> /\ pjArrays = <<>> /\ pjSlot = 0 /\ pjRequests = <<>>
  /\ mnCompetitors = <<>> /\ mnResults = <<>> /\ mnResponse = NoMonitoring /\ mnPc = "idle"
  /\ auRequest = NoRequest /\ auUser = NoUser /\ auNext = 0
  /\ auResponse = NoAnswer /\ auHandler = FALSE /\ auPc = "idle"

\* POST /quick-score arrives
QuickInit ==
  /\ qsPrdData \in PostedPrdData \cup { NoPrdData }
  /\ qsScore = 0
  /\ qsResponse = NoQuickScore
  /\ qsPc = "request"
  /\ exContent = <<>> /\ exLines = <<>> /\ exI = 0 /\ exLoop = LoopStart
  /\ exSections = <<>> /\ exPc = "idle" /\ exPass = 0 /\ exFirst = <<>>
  /\ vStructuredData = [ given |-> FALSE, sections |-> <<>> ]
  /\ vContent = NoText /\ vResponse = NoResponse /\ vPc = "idle"
  /\ anHasData = FALSE /\ anType = "comprehensive" /\ anInclude = FALSE
  /\ anTasks = <<>> /\ anResponse = NoAnalysis /\ anPc = "idle"
  /\ scContent = NoText /\ scScore = 0 /\ scPc = "idle"
  /\ ciPrdData = "strings" /\ ciTasks = <<>> /\ ciResult = NoIntelligence /\ ciPc = "idle"
  /\ fxContent = <<>> /\ fxMetrics = <<>> /\ fxStakeholders = <<>>
  /\ fxFeatures = <<>> /\ fxRisks = <<>> /\ fxPc = "idle"
  /\ rgRequests = <<>> /\ rgUsers = <<>> /\ rgCounter = 1
  /\ upObjects = <<>> /\ upSlot = 0 /\ upRequests = <<>>
  /\ ulUploads = <<>>
  /\ txCalls = <<>>
  /\ dbCalls = <<>> /\ dbInUse = 0
  /\ pjObjects = <<>> /\ pjArrays = <<>> /\ pjSlot = 0 /\ pjRequests = <<>>
  /\ mnCompetitors = <<>> /\ mnResults = <<>> /\ mnResponse = NoMonitoring /\ mnPc = "idle"
  /\ auRequest = NoRequest /\ auUser = NoUser /\ auNext = 0
  /\ auResponse = NoAnswer /\ auHandler = FALSE /\ auPc = "idle"

\* calculateSectionCompleteness is called
CompletenessInit ==
  /\ scContent \in SectionContents
  /\ scScore = 0
  /\ scPc = "call"
  /\ exContent = <<>> /\ exLines = <<>> /\ exI = 0 /\ exLoop = LoopStart
  /\ exSections = <<>> /\ exPc = "idle" /\ exPass = 0 /\ exFirst = <<>>
  /\ vStructuredData = [ given |-> FALSE, sections |-> <<>> ]
  /\ vContent = NoText /\ vResponse = NoResponse /\ vPc = "idle"
  /\ anHasData = FALSE /\ anType = "comprehensive" /\ anInclude = FALSE
  /\ anTasks = <<>> /\ anResponse = NoAnalysis /\ anPc = "idle"
  /\ qsPrdData = NoPrdData /\ qsScore = 0 /\ qsResponse = NoQuickScore /\ qsPc = "idle"
  /\ ciPrdData = "strings" /\ ciTasks = <<>> /\ ciResult = NoIntelligence /\ ciPc = "idle"
  /\ fxContent = <<>> /\ fxMetrics = <<>> /\ fxStakeholders = <<>>
  /\ fxFeatures = <<>> /\ fxRisks = <<>> /\ fxPc = "idle"
  /\ rgRequests = <<>> /\ rgUsers = <<>> /\ rgCounter = 1
  /\ upObjects = <<>> /\ upSlot = 0 /\ upRequests = <<>>
  /\ ulUploads = <<>>
  /\ txCalls = <<>>
  /\ dbCalls = <<>> /\ dbInUse = 0
  /\ pjObjects = <<>> /\ pjArrays = <<>> /\ pjSlot = 0 /\ pjRequests = <<>>
  /\ mnCompetitors = <<>> /\ mnResults = <<>> /\ mnResponse = NoMonitoring /\ mnPc = "idle"
  /\ auRequest = NoRequest /\ auUser = NoUser /\ auNext = 0
  /\ auResponse = NoAnswer /\ auHandler = FALSE /\ auPc = "idle"

\* getCompetitiveIntelligence is called
IntelligenceInit ==
  /\ ciPrdData \in PostedIntelligenceData
  /\ ciTasks = <<>>
  /\ ciResult = NoIntelligence
  /\ ciPc = "call"
  /\ exContent = <<>> /\ exLines = <<>> /\ exI = 0 /\ exLoop = LoopStart
  /\ exSections = <<>> /\ exPc = "idle" /\ exPass = 0 /\ exFirst = <<>>
  /\ vStructuredData = [ given |-> FALSE, sections |-> <<>> ]
  /\ vContent = NoText /\ vResponse = NoResponse /\ vPc = "idle"
  /\ anHasData = FALSE /\ anType = "comprehensive" /\ anInclude = FALSE
  /\ anTasks = <<>> /\ anResponse = NoAnalysis /\ anPc = "idle"
  /\ qsPrdData = NoPrdData /\ qsScore = 0 /\ qsResponse = NoQuickScore /\ qsPc = "idle"
  /\ scContent = NoText /\ scScore = 0 /\ scPc = "idle"
  /\ fxContent = <<>> /\ fxMetrics = <<>> /\ fxStakeholders = <<>>
  /\ fxFeatures = <<>> /\ fxRisks = <<>> /\ fxPc = "idle"
  /\ rgRequests = <<>> /\ rgUsers = <<>> /\ rgCounter = 1
  /\ upObjects = <<>> /\ upSlot = 0 /\ upRequests = <<>>
  /\ ulUploads = <<>>
  /\ txCalls = <<>>
  /\ dbCalls = <<>> /\ dbInUse = 0
  /\ pjObjects = <<>> /\ pjArrays = <<>> /\ pjSlot = 0 /\ pjRequests = <<>>
  /\ mnCompetitors = <<>> /\ mnResults = <<>> /\ mnResponse = NoMonitoring /\ mnPc = "idle"
  /\ auRequest = NoRequest /\ auUser = NoUser /\ auNext = 0
  /\ auResponse = NoAnswer /\ auHandler = FALSE /\ auPc = "idle"

\* the extractors are run on the content
FeatureListsInit ==
  /\ fxContent \in FragmentTexts
  /\ fxMetrics = <<>> /\ fxStakeholders = <<>> /\ fxFeatures = <<>> /\ fxRisks = <<>>
  /\ fxPc = "metrics"
  /\ exContent = <<>> /\ exLines = <<>> /\ exI = 0 /\ exLoop = LoopStart
  /\ exSections = <<>> /\ exPc = "idle" /\ exPass = 0 /\ exFirst = <<>>
  /\ vStructuredData = [ given |-> FALSE, sections |-> <<>> ]
  /\ vContent = NoText /\ vResponse = NoResponse /\ vPc = "idle"
  /\ anHasData = FALSE /\ anType = "comprehensive" /\ anInclude = FALSE
  /\ anTasks = <<>> /\ anResponse = NoAnalysis /\ anPc = "idle"
  /\ qsPrdData = NoPrdData /\ qsScore = 0 /\ qsResponse = NoQuickScore /\ qsPc = "idle"
  /\ scContent = NoText /\ scScore = 0 /\ scPc = "idle"
  /\ ciPrdData = "strings" /\ ciTasks = <<>> /\ ciResult = NoIntelligence /\ ciPc = "idle"
  /\ rgRequests = <<>> /\ rgUsers = <<>> /\ rgCounter = 1
  /\ upObjects = <<>> /\ upSlot = 0 /\ upRequests = <<>>
  /\ ulUploads = <<>>
  /\ txCalls = <<>>
  /\ dbCalls = <<>> /\ dbInUse = 0
  /\ pjObjects = <<>> /\ pjArrays = <<>> /\ pjSlot = 0 /\ pjRequests = <<>>
  /\ mnCompetitors = <<>> /\ mnResults = <<>> /\ mnResponse = NoMonitoring /\ mnPc = "idle"
  /\ auRequest = NoRequest /\ auUser = NoUser /\ auNext = 0
  /\ auResponse = NoAnswer /\ auHandler = FALSE /\ auPc = "idle"

\* the requests have arrived at an empty store
RegisterInit ==
  /\ rgRequests \in [ 1..MaxRequests -> { Received(b) : b \in RegisterBodies } ]
  /\ rgUsers = <<>>
  /\ rgCounter = 1
  /\ exContent = <<>> /\ exLines = <<>> /\ exI = 0 /\ exLoop = LoopStart
  /\ exSections = <<>> /\ exPc = "idle" /\ exPass = 0 /\ exFirst = <<>>
  /\ vStructuredData = [ given |-> FALSE, sections |-> <<>> ]
  /\ vContent = NoText /\ vResponse = NoResponse /\ vPc = "idle"
  /\ anHasData = FALSE /\ anType = "comprehensive" /\ anInclude = FALSE
  /\ anTasks = <<>> /\ anResponse = NoAnalysis /\ anPc = "idle"
  /\ qsPrdData = NoPrdData /\ qsScore = 0 /\ qsResponse = NoQuickScore /\ qsPc = "idle"
  /\ scContent = NoText /\ scScore = 0 /\ scPc = "idle"
  /\ ciPrdData = "strings" /\ ciTasks = <<>> /\ ciResult = NoIntelligence /\ ciPc = "idle"
  /\ fxContent = <<>> /\ fxMetrics = <<>> /\ fxStakeholders = <<>>
  /\ fxFeatures = <<>> /\ fxRisks = <<>> /\ fxPc = "idle"
  /\ upObjects = <<>> /\ upSlot = 0 /\ upRequests = <<>>
  /\ ulUploads = <<>>
  /\ txCalls = <<>>
  /\ dbCalls = <<>> /\ dbInUse = 0
  /\ pjObjects = <<>> /\ pjArrays = <<>> /\ pjSlot = 0 /\ pjRequests = <<>>
  /\ mnCompetitors = <<>> /\ mnResults = <<>> /\ mnResponse = NoMonitoring /\ mnPc = "idle"
  /\ auRequest = NoRequest /\ auUser = NoUser /\ auNext = 0
  /\ auResponse = NoAnswer /\ auHandler = FALSE /\ auPc = "idle"

\* the three requests arrive for the stored user
UserStoreInit ==
  /\ upObjects = << StoredUser >>
  /\ upSlot = 1
  /\ upRequests \in { [ k \in UserRequestKinds |->
                          Arrived(IF k = "password" THEN p ELSE IF k = "login" THEN l ELSE "") ] :
                        p \in { "secret", "wrong" }, l \in { "secret", "wrong" } }
  /\ exContent = <<>> /\ exLines = <<>> /\ exI = 0 /\ exLoop = LoopStart
  /\ exSections = <<>> /\ exPc = "idle" /\ exPass = 0 /\ exFirst = <<>>
  /\ vStructuredData = [ given |-> FALSE, sections |-> <<>> ]
  /\ vContent = NoText /\ vResponse = NoResponse /\ vPc = "idle"
  /\ anHasData = FALSE /\ anType = "comprehensive" /\ anInclude = FALSE
  /\ anTasks = <<>> /\ anResponse = NoAnalysis /\ anPc = "idle"
  /\ qsPrdData = NoPrdData /\ qsScore = 0 /\ qsResponse = NoQuickScore /\ qsPc = "idle"
  /\ scContent = NoText /\ scScore = 0 /\ scPc = "idle"
  /\ ciPrdData = "strings" /\ ciTasks = <<>> /\ ciResult = NoIntelligence /\ ciPc = "idle"
  /\ fxContent = <<>> /\ fxMetrics = <<>> /\ fxStakeholders = <<>>
  /\ fxFeatures = <<>> /\ fxRisks = <<>> /\ fxPc = "idle"
  /\ rgRequests = <<>> /\ rgUsers = <<>> /\ rgCounter = 1
  /\ ulUploads = <<>>
  /\ txCalls = <<>>
  /\ dbCalls = <<>> /\ dbInUse = 0
  /\ pjObjects = <<>> /\ pjArrays = <<>> /\ pjSlot = 0 /\ pjRequests = <<>>
  /\ mnCompetitors = <<>> /\ mnResults = <<>> /\ mnResponse = NoMonitoring /\ mnPc = "idle"
  /\ auRequest = NoRequest /\ auUser = NoUser /\ auNext = 0
  /\ auResponse = NoAnswer /\ auHandler = FALSE /\ auPc = "idle"

\* the uploads have passed multer
UploadInit ==
  /\ ulUploads \in [ 1..MaxUploads -> { Uploaded(f) : f \in BOOLEAN } ]
  /\ exContent = <<>> /\ exLines = <<>> /\ exI = 0 /\ exLoop = LoopStart
  /\ exSections = <<>> /\ exPc = "idle" /\ exPass = 0 /\ exFirst = <<>>
  /\ vStructuredData = [ given |-> FALSE, sections |-> <<>> ]
  /\ vContent = NoText /\ vResponse = NoResponse /\ vPc = "idle"
  /\ anHasData = FALSE /\ anType = "comprehensive" /\ anInclude = FALSE
  /\ anTasks = <<>> /\ anResponse = NoAnalysis /\ anPc = "idle"
  /\ qsPrdData = NoPrdData /\ qsScore = 0 /\ qsResponse = NoQuickScore /\ qsPc = "idle"
  /\ scContent = NoText /\ scScore = 0 /\ scPc = "idle"
  /\ ciPrdData = "strings" /\ ciTasks = <<>> /\ ciResult = NoIntelligence /\ ciPc = "idle"
  /\ fxContent = <<>> /\ fxMetrics = <<>> /\ fxStakeholders = <<>>
  /\ fxFeatures = <<>> /\ fxRisks = <<>> /\ fxPc = "idle"
  /\ rgRequests = <<>> /\ rgUsers = <<>> /\ rgCounter = 1
  /\ upObjects = <<>> /\ upSlot = 0 /\ upRequests = <<>>
  /\ txCalls = <<>>
  /\ dbCalls = <<>> /\ dbInUse = 0
  /\ pjObjects = <<>> /\ pjArrays = <<>> /\ pjSlot = 0 /\ pjRequests = <<>>
  /\ mnCompetitors = <<>> /\ mnResults = <<>> /\ mnResponse = NoMonitoring /\ mnPc = "idle"
  /\ auRequest = NoRequest /\ auUser = NoUser /\ auNext = 0
  /\ auResponse = NoAnswer /\ auHandler = FALSE /\ auPc = "idle"

\* db.transaction is called
TransactionInit ==
  /\ txCalls = [ t \in 1..MaxTransactions |-> Called ]
  /\ exContent = <<>> /\ exLines = <<>> /\ exI = 0 /\ exLoop = LoopStart
  /\ exSections = <<>> /\ exPc = "idle" /\ exPass = 0 /\ exFirst = <<>>
  /\ vStructuredData = [ given |-> FALSE, sections |-> <<>> ]
  /\ vContent = NoText /\ vResponse = NoResponse /\ vPc = "idle"
  /\ anHasData = FALSE /\ anType = "comprehensive" /\ anInclude = FALSE
  /\ anTasks = <<>> /\ anResponse = NoAnalysis /\ anPc = "idle"
  /\ qsPrdData = NoPrdData /\ qsScore = 0 /\ qsResponse = NoQuickScore /\ qsPc = "idle"
  /\ scContent = NoText /\ scScore = 0 /\ scPc = "idle"
  /\ ciPrdData = "strings" /\ ciTasks = <<>> /\ ciResult = NoIntelligence /\ ciPc = "idle"
  /\ fxContent = <<>> /\ fxMetrics = <<>> /\ fxStakeholders = <<>>
  /\ fxFeatures = <<>> /\ fxRisks = <<>> /\ fxPc = "idle"
  /\ rgRequests = <<>> /\ rgUsers = <<>> /\ rgCounter = 1
  /\ upObjects = <<>> /\ upSlot = 0 /\ upRequests = <<>>
  /\ ulUploads = <<>>
  /\ dbCalls = <<>> /\ dbInUse = 0
  /\ pjObjects = <<>> /\ pjArrays = <<>> /\ pjSlot = 0 /\ pjRequests = <<>>
  /\ mnCompetitors = <<>> /\ mnResults = <<>> /\ mnResponse = NoMonitoring /\ mnPc = "idle"
  /\ auRequest = NoRequest /\ auUser = NoUser /\ auNext = 0
  /\ auResponse = NoAnswer /\ auHandler = FALSE /\ auPc = "idle"

\* testConnection and initializeDatabase are called
StartupInit ==
  /\ dbCalls = [ f \in StartupFunctions |-> Entered ]
  /\ dbInUse = 0
  /\ exContent = <<>> /\ exLines = <<>> /\ exI = 0 /\ exLoop = LoopStart
  /\ exSections = <<>> /\ exPc = "idle" /\ exPass = 0 /\ exFirst = <<>>
  /\ vStructuredData = [ given |-> FALSE, sections |-> <<>> ]
  /\ vContent = NoText /\ vResponse = NoResponse /\ vPc = "idle"
  /\ anHasData = FALSE /\ anType = "comprehensive" /\ anInclude = FALSE
  /\ anTasks = <<>> /\ anResponse = NoAnalysis /\ anPc = "idle"
  /\ qsPrdData = NoPrdData /\ qsScore = 0 /\ qsResponse = NoQuickScore /\ qsPc = "idle"
  /\ scContent = NoText /\ scScore = 0 /\ scPc = "idle"
  /\ ciPrdData = "strings" /\ ciTasks = <<>> /\ ciResult = NoIntelligence /\ ciPc = "idle"
  /\ fxContent = <<>> /\ fxMetrics = <<>> /\ fxStakeholders = <<>>
  /\ fxFeatures = <<>> /\ fxRisks = <<>> /\ fxPc = "idle"
  /\ rgRequests = <<>> /\ rgUsers = <<>> /\ rgCounter = 1
  /\ upObjects = <<>> /\ upSlot = 0 /\ upRequests = <<>>
  /\ ulUploads = <<>>
  /\ txCalls = <<>>
  /\ pjObjects = <<>> /\ pjArrays = <<>> /\ pjSlot = 0 /\ pjRequests = <<>>
  /\ mnCompetitors = <<>> /\ mnResults = <<>> /\ mnResponse = NoMonitoring /\ mnPc = "idle"
  /\ auRequest = NoRequest /\ auUser = NoUser /\ auNext = 0
  /\ auResponse = NoAnswer /\ auHandler = FALSE /\ auPc = "idle"

\* the requests arrive for the stored project
ProjectInit ==
  /\ pjObjects = << StoredProject >>
  /\ pjArrays = << <<>> >>
  /\ pjSlot = 1
  /\ pjRequests \in [ 1..MaxProjectRequests -> ProjectRequests ]
  /\ exContent = <<>> /\ exLines = <<>> /\ exI = 0 /\ exLoop = LoopStart
  /\ exSections = <<>> /\ exPc = "idle" /\ exPass = 0 /\ exFirst = <<>>
  /\ vStructuredData = [ given |-> FALSE, sections |-> <<>> ]
  /\ vContent = NoText /\ vResponse = NoResponse /\ vPc = "idle"
  /\ anHasData = FALSE /\ anType = "comprehensive" /\ anInclude = FALSE
  /\ anTasks = <<>> /\ anResponse = NoAnalysis /\ anPc = "idle"
  /\ qsPrdData = NoPrdData /\ qsScore = 0 /\ qsResponse = NoQuickScore /\ qsPc = "idle"
  /\ scContent = NoText /\ scScore = 0 /\ scPc = "idle"
  /\ ciPrdData = "strings" /\ ciTasks = <<>> /\ ciResult = NoIntelligence /\ ciPc = "idle"
  /\ fxContent = <<>> /\ fxMetrics = <<>> /\ fxStakeholders = <<>>
  /\ fxFeatures = <<>> /\ fxRisks = <<>> /\ fxPc = "idle"
  /\ rgRequests = <<>> /\ rgUsers = <<>> /\ rgCounter = 1
  /\ upObjects = <<>> /\ upSlot = 0 /\ upRequests = <<>>
  /\ ulUploads = <<>>
  /\ txCalls = <<>>
  /\ dbCalls = <<>> /\ dbInUse = 0
  /\ mnCompetitors = <<>> /\ mnResults = <<>> /\ mnResponse = NoMonitoring /\ mnPc = "idle"
  /\ auRequest = NoRequest /\ auUser = NoUser /\ auNext = 0
  /\ auResponse = NoAnswer /\ auHandler = FALSE /\ auPc = "idle"

\* POST /monitor arrives
MonitorInit ==
  /\ mnCompetitors \in { [ i \in 1..n |-> i ] : n \in 0..MaxCompetitors }
  /\ mnResults = <<>>
  /\ mnResponse = NoMonitoring
  /\ mnPc = "request"
  /\ exContent = <<>> /\ exLines = <<>> /\ exI = 0 /\ exLoop = LoopStart
  /\ exSections = <<>> /\ exPc = "idle" /\ exPass = 0 /\ exFirst = <<>>
  /\ vStructuredData = [ given |-> FALSE, sections |-> <<>> ]
  /\ vContent = NoText /\ vResponse = NoResponse /\ vPc = "idle"
  /\ anHasData = FALSE /\ anType = "comprehensive" /\ anInclude = FALSE
  /\ anTasks = <<>> /\ anResponse = NoAnalysis /\ anPc = "idle"
  /\ qsPrdData = NoPrdData /\ qsScore = 0 /\ qsResponse = NoQuickScore /\ qsPc = "idle"
  /\ scContent = NoText /\ scScore = 0 /\ scPc = "idle"
  /\ ciPrdData = "strings" /\ ciTasks = <<>> /\ ciResult = NoIntelligence /\ ciPc = "idle"
  /\ fxContent = <<>> /\ fxMetrics = <<>> /\ fxStakeholders = <<>>
  /\ fxFeatures = <<>> /\ fxRisks = <<>> /\ fxPc = "idle"
  /\ rgRequests = <<>> /\ rgUsers = <<>> /\ rgCounter = 1
  /\ upObjects = <<>> /\ upSlot = 0 /\ upRequests = <<>>
  /\ ulUploads = <<>>
  /\ txCalls = <<>>
  /\ dbCalls = <<>> /\ dbInUse = 0
  /\ pjObjects = <<>> /\ pjArrays = <<>> /\ pjSlot = 0 /\ pjRequests = <<>>
  /\ auRequest = NoRequest /\ auUser = NoUser /\ auNext = 0
  /\ auResponse = NoAnswer /\ auHandler = FALSE /\ auPc = "idle"

\* a request arrives at the chain
AuthInit ==
  /\ auRequest \in { [ header |-> h, auth |-> a, roles |-> rs ] :
                        h \in Headers, a \in BOOLEAN, rs \in RoleLists }
  /\ auUser = NoUser
  /\ auNext = 0
  /\ auResponse = NoAnswer
  /\ auHandler = FALSE
  /\ auPc = IF auRequest.auth THEN "auth" ELSE "role"
  /\ exContent = <<>> /\ exLines = <<>> /\ exI = 0 /\ exLoop = LoopStart
  /\ exSections = <<>> /\ exPc = "idle" /\ exPass = 0 /\ exFirst = <<>>
  /\ vStructuredData = [ given |-> FALSE, sections |-> <<>> ]
  /\ vContent = NoText /\ vResponse = NoResponse /\ vPc = "idle"
  /\ anHasData = FALSE /\ anType = "comprehensive" /\ anInclude = FALSE
  /\ anTasks = <<>> /\ anResponse = NoAnalysis /\ anPc = "idle"
  /\ qsPrdData = NoPrdData /\ qsScore = 0 /\ qsResponse = NoQuickScore /\ qsPc = "idle"
  /\ scContent = NoText /\ scScore = 0 /\ scPc = "idle"
  /\ ciPrdData = "strings" /\ ciTasks = <<>> /\ ciResult = NoIntelligence /\ ciPc = "idle"
  /\ fxContent = <<>> /\ fxMetrics = <<>> /\ fxStakeholders = <<>>
  /\ fxFeatures = <<>> /\ fxRisks = <<>> /\ fxPc = "idle"
  /\ rgRequests = <<>> /\ rgUsers = <<>> /\ rgCounter = 1
  /\ upObjects = <<>> /\ upSlot = 0 /\ upRequests = <<>>
  /\ ulUploads = <<>>
  /\ txCalls = <<>>
  /\ dbCalls = <<>> /\ dbInUse = 0
  /\ pjObjects = <<>> /\ pjArrays = <<>> /\ pjSlot = 0 /\ pjRequests = <<>>
  /\ mnCompetitors = <<>> /\ mnResults = <<>> /\ mnResponse = NoMonitoring /\ mnPc = "idle"

ExtractSpec == ExtractInit /\ [][ExtractNext]_vars

ValidateSpec == ValidateInit /\ [][ValidateNext]_vars

AnalyzeSpec == AnalyzeInit /\ [][AnalyzeNext]_vars

QuickSpec == QuickInit /\ [][QuickNext]_vars

CompletenessSpec == CompletenessInit /\ [][CompletenessNext]_vars

IntelligenceSpec == IntelligenceInit /\ [][IntelligenceNext]_vars

FeatureListsSpec == FeatureListsInit /\ [][FeatureListsNext]_vars

RegisterSpec == RegisterInit /\ [][RegisterNext]_vars

UserStoreSpec == UserStoreInit /\ [][UserStoreNext]_vars

UploadSpec == UploadInit /\ [][UploadNext]_vars

TransactionSpec == TransactionInit /\ [][TransactionNext]_vars

StartupSpec == StartupInit /\ [][StartupNext]_vars

ProjectSpec == ProjectInit /\ [][ProjectNext]_vars

MonitorSpec == MonitorInit /\ [][MonitorNext]_vars

AuthSpec == AuthInit /\ [][AuthNext]_vars

====
